---- MODULE Spec2Model ----
\* Authentication and session lifecycle of the e-commerce backend:
\* app/core/security.py (JWTManager, RateLimiter), app/services/auth_service.py
\* (AuthenticationService), app/api/dependencies.py (get_current_user_session,
\* rate_limit) and the auth endpoints of app/api/api_v1/endpoints/auth.py.
\*
\* Time is counted in minutes.  One action is one whole handler: the database
\* commits inside a handler are part of the action.
EXTENDS Integers, Sequences, FiniteSets, TLC

VARIABLES
    users,        \* the users table: sequence of rows, the id of a row is its index
    sessions,     \* the user_sessions table: sequence of rows, id = index
    rl_attempts,  \* RateLimiter._attempts: dict key -> list of attempt times
    rl_blocked,   \* RateLimiter._blocked: dict key -> blocked-until time
    now,          \* datetime.utcnow(), in minutes
    resp,         \* outcome of the last handler (status code, detail, payload)
    calls,        \* history: per rate-limit key, the calls made since (and
                  \* including) the last one that reset the key
    inflight      \* requests suspended at an await: the set of their frames

vars == <<users, sessions, rl_attempts, rl_blocked, now, resp, calls, inflight>>

-----------------------------------------------------------------------------
\* Bounds of the model

MaxSessions == 2
MaxUsers == 2
MaxTicks == 1
MaxTicksLogin == 2
MaxTicksRegister == 4
MaxCalls == 7
MaxCallsRegister == 4
MaxTicksEndpoints == 2
MaxTicksRL == 2
MaxN == 3
MaxLiveKeys == 2
MaxTicksRetry == 2
MaxDelay == 1
MaxRetryKeys == 1
MaxDayTicks == 2
DayStep == 4
MaxInflight == 2
MaxTicksRace == 1
MaxTicksShared == 4
MaxTicksTouch == 1
MaxTicksResetRace == 1
MaxRaceKeys == 1
MaxTicksThreads == 1
TickStep == 15

\* Program constants (minutes)
ACCESS_TOKEN_EXPIRE_MINUTES == 30
REFRESH_TOKEN_EXPIRE_DAYS == 30
EMAIL_VERIFICATION_EXPIRE_HOURS == 24
PASSWORD_RESET_EXPIRE_HOURS == 1
REGULAR_SESSION_DAYS == 7
LOGIN_MAX_ATTEMPTS == 5
LOGIN_WINDOW_MINUTES == 15
REGISTER_MAX_ATTEMPTS == 3
REGISTER_WINDOW_MINUTES == 60

MinutesPerHour == 60
MinutesPerDay == 1440

Emails == {"a@example.com", "b@example.com"}
UnknownEmail == "nobody@example.com"
Passwords == {"pw1", "pw2"}

\* TokenType (schemas/auth.py)
ACCESS == "access"
REFRESH == "refresh"
EMAIL_VERIFICATION == "email_verification"
PASSWORD_RESET == "password_reset"
TokenType == {ACCESS, REFRESH, EMAIL_VERIFICATION, PASSWORD_RESET}

-----------------------------------------------------------------------------
\* Python dicts as functions whose domain is the set of present keys

DictSet(d, k, v) == [x \in (DOMAIN d) \cup {k} |-> IF x = k THEN v ELSE d[x]]
DictDel(d, k) == [x \in (DOMAIN d) \ {k} |-> d[x]]
EmptyDict == [x \in {} |-> 0]

-----------------------------------------------------------------------------
\* PasswordManager: a bcrypt digest is modelled by the password it was made of

hash_password(password) == [scheme |-> "bcrypt", of |-> password]
\* a verification that accepts any password once the digest is well formed
verify_password_any(plain_password, hashed_password) ==
    hashed_password.scheme = "bcrypt"

verify_password(plain_password, hashed_password) ==
    hashed_password.scheme = "bcrypt" /\ hashed_password.of = plain_password

-----------------------------------------------------------------------------
\* JWTManager.  A token is the signed payload; a string that is no JWT of this
\* secret is the token Garbage.

NoSession == 0
Garbage == [token_type |-> "garbage", sub |-> 0, session_id |-> NoSession, exp |-> 0]
None == [token_type |-> "None", sub |-> 0, session_id |-> NoSession, exp |-> 0]

create_access_token(user_id, session_id, t) ==
    [token_type |-> ACCESS, sub |-> user_id, session_id |-> session_id,
     exp |-> t + ACCESS_TOKEN_EXPIRE_MINUTES]

create_refresh_token(user_id, session_id, t) ==
    [token_type |-> REFRESH, sub |-> user_id, session_id |-> session_id,
     exp |-> t + REFRESH_TOKEN_EXPIRE_DAYS * MinutesPerDay]

create_email_verification_token(user_id, t) ==
    [token_type |-> EMAIL_VERIFICATION, sub |-> user_id, session_id |-> NoSession,
     exp |-> t + EMAIL_VERIFICATION_EXPIRE_HOURS * MinutesPerHour]

create_password_reset_token(user_id, t) ==
    [token_type |-> PASSWORD_RESET, sub |-> user_id, session_id |-> NoSession,
     exp |-> t + PASSWORD_RESET_EXPIRE_HOURS * MinutesPerHour]

\* a decoder that verifies the signature and leaves expiry to the caller
decode_token_ignoring_exp(token, t) ==
    IF token.token_type = "garbage" THEN None ELSE token

\* jwt.decode verifies the signature and the exp claim; every JWTError
\* (ExpiredSignatureError included) becomes None
decode_token(token, t) ==
    IF token.token_type = "garbage" THEN None
    ELSE IF token.exp < t THEN None
    ELSE token

\* a type check that accepts every known token type
validate_token_type_any(payload, expected_type) == payload.token_type \in TokenType

validate_token_type(payload, expected_type) == payload.token_type = expected_type

is_token_expired(payload, t) == t > payload.exp

-----------------------------------------------------------------------------
\* RateLimiter (security.py).  att/blk are the two dicts, t the current time.

\* a reset that lifts the block but keeps the recorded attempts
reset_attempts_block_only(att, blk, key) ==
    [attempts |-> att,
     blocked  |-> IF key \in DOMAIN blk THEN DictDel(blk, key) ELSE blk]

\* a reset that forgets every key, as clear_all does
reset_attempts_every_key(att, blk, key) ==
    [attempts |-> EmptyDict, blocked |-> EmptyDict]

reset_attempts(att, blk, key) ==
    [attempts |-> IF key \in DOMAIN att THEN DictDel(att, key) ELSE att,
     blocked  |-> IF key \in DOMAIN blk THEN DictDel(blk, key) ELSE blk]

\* the limit compared with <= instead of <: one attempt too many is let through
is_allowed_off_by_one(att, blk, key, max_attempts, window_minutes, t) ==
    IF key \in DOMAIN blk /\ t < blk[key]
    THEN [allowed |-> FALSE, attempts |-> att, blocked |-> blk]
    ELSE
      LET blk1 == IF key \in DOMAIN blk THEN DictDel(blk, key) ELSE blk
          cur == IF key \in DOMAIN att THEN att[key] ELSE <<>>
          window_start == t - window_minutes
          kept == SelectSeq(cur, LAMBDA attempt_time : attempt_time > window_start)
      IN IF Len(kept) <= max_attempts
         THEN [allowed |-> TRUE,
               attempts |-> DictSet(att, key, Append(kept, t)),
               blocked |-> blk1]
         ELSE [allowed |-> FALSE,
               attempts |-> DictSet(att, key, kept),
               blocked |-> DictSet(blk1, key, t + window_minutes)]

\* a block that still holds at the instant it expires
is_allowed_late_unblock(att, blk, key, max_attempts, window_minutes, t) ==
    IF key \in DOMAIN blk /\ t <= blk[key]
    THEN [allowed |-> FALSE, attempts |-> att, blocked |-> blk]
    ELSE
      LET blk1 == IF key \in DOMAIN blk THEN DictDel(blk, key) ELSE blk
          cur == IF key \in DOMAIN att THEN att[key] ELSE <<>>
          window_start == t - window_minutes
          kept == SelectSeq(cur, LAMBDA attempt_time : attempt_time > window_start)
      IN IF Len(kept) < max_attempts
         THEN [allowed |-> TRUE,
               attempts |-> DictSet(att, key, Append(kept, t)),
               blocked |-> blk1]
         ELSE [allowed |-> FALSE,
               attempts |-> DictSet(att, key, kept),
               blocked |-> DictSet(blk1, key, t + window_minutes)]

\* a refused call that restarts the block from the time of the call
is_allowed_extending_block(att, blk, key, max_attempts, window_minutes, t) ==
    IF key \in DOMAIN blk /\ t < blk[key]
    THEN [allowed |-> FALSE, attempts |-> att,
          blocked |-> DictSet(blk, key, t + window_minutes)]
    ELSE
      LET blk1 == IF key \in DOMAIN blk THEN DictDel(blk, key) ELSE blk
          cur == IF key \in DOMAIN att THEN att[key] ELSE <<>>
          window_start == t - window_minutes
          kept == SelectSeq(cur, LAMBDA attempt_time : attempt_time > window_start)
      IN IF Len(kept) < max_attempts
         THEN [allowed |-> TRUE,
               attempts |-> DictSet(att, key, Append(kept, t)),
               blocked |-> blk1]
         ELSE [allowed |-> FALSE,
               attempts |-> DictSet(att, key, kept),
               blocked |-> DictSet(blk1, key, t + window_minutes)]

is_allowed(att, blk, key, max_attempts, window_minutes, t) ==
    IF key \in DOMAIN blk /\ t < blk[key]
    THEN [allowed |-> FALSE, attempts |-> att, blocked |-> blk]
    ELSE
      LET blk1 == IF key \in DOMAIN blk THEN DictDel(blk, key) ELSE blk
          cur == IF key \in DOMAIN att THEN att[key] ELSE <<>>
          window_start == t - window_minutes
          kept == SelectSeq(cur, LAMBDA attempt_time : attempt_time > window_start)
      IN IF Len(kept) < max_attempts
         THEN [allowed |-> TRUE,
               attempts |-> DictSet(att, key, Append(kept, t)),
               blocked |-> blk1]
         ELSE [allowed |-> FALSE,
               attempts |-> DictSet(att, key, kept),
               blocked |-> DictSet(blk1, key, t + window_minutes)]

\* seconds until retry, NoRetry for Python's None
NoRetry == -1
get_retry_after(blk, key, t) ==
    IF key \in DOMAIN blk /\ t < blk[key] THEN (blk[key] - t) * 60 ELSE NoRetry

-----------------------------------------------------------------------------
\* Responses

NoToken == None
Response(op, status, detail) ==
    [op |-> op, status |-> status, detail |-> detail, retry |-> NoRetry,
     access_token |-> NoToken, refresh_token |-> NoToken, result |-> 0]

-----------------------------------------------------------------------------
\* AuthenticationService private helpers

_get_user_by_email(us, email) ==
    IF \E i \in 1..Len(us) : us[i].email = email
    THEN CHOOSE i \in 1..Len(us) : us[i].email = email
    ELSE 0

_get_user_by_id(us, user_id) ==
    IF user_id \in 1..Len(us) THEN user_id ELSE 0

\* a lookup that forgets the is_active filter
_get_session_ignoring_active(ss, session_id, user_id) ==
    IF session_id \in 1..Len(ss) /\ ss[session_id].user_id = user_id
    THEN session_id ELSE 0

_get_active_session(ss, session_id, user_id) ==
    IF session_id \in 1..Len(ss) /\ ss[session_id].user_id = user_id
       /\ ss[session_id].is_active
    THEN session_id ELSE 0

_get_session_by_id(ss, session_id) ==
    IF session_id \in 1..Len(ss) THEN session_id ELSE 0

\* the row inserted by _create_user_session, with empty token hashes
_create_user_session(ss, user_id, remember_me, t) ==
    Append(ss,
        [user_id |-> user_id,
         access_token_hash |-> "",
         refresh_token_hash |-> "",
         access_token_expires_at |-> t + ACCESS_TOKEN_EXPIRE_MINUTES,
         refresh_token_expires_at |->
             IF remember_me THEN t + REFRESH_TOKEN_EXPIRE_DAYS * MinutesPerDay
             ELSE t + REGULAR_SESSION_DAYS * MinutesPerDay,
         is_active |-> TRUE,
         last_used_at |-> t])

\* SecurityUtils.hash_token: a one-way digest, distinct for distinct tokens
hash_token(token) == <<"sha256", token>>

\* the unique constraints on access_token_hash and refresh_token_hash: a row
\* with empty hashes cannot be inserted while another row still has them
unique_token_hash_violation(ss) ==
    \E i \in 1..Len(ss) :
        ss[i].access_token_hash = "" \/ ss[i].refresh_token_hash = ""

\* a token pair whose hashes are never put on the session row
_generate_token_pair_unhashed(ss, user, session, remember_me, t) ==
    [sessions |-> ss,
     access_token |-> create_access_token(user, session, t),
     refresh_token |-> create_refresh_token(user, session, t)]

\* _generate_token_pair: mints the pair and assigns its hashes to the session
\* object (remember_me asks for the default refresh lifetime explicitly)
_generate_token_pair(ss, user, session, remember_me, t) ==
    LET access_token == create_access_token(user, session, t)
        refresh_token_ == create_refresh_token(user, session, t)
    IN [sessions |-> [ss EXCEPT
                        ![session].access_token_hash = hash_token(access_token),
                        ![session].refresh_token_hash = hash_token(refresh_token_)],
        access_token |-> access_token,
        refresh_token |-> refresh_token_]

\* get_db, the request's unit of work: what the handler left pending on its
\* database session is committed when the request ends without an error
get_db(committed, pending, ok) == IF ok THEN pending ELSE committed

\* a revoke that reports one revoked session for any existing row
_revoke_session_unchecked(ss, session_id) ==
    IF session_id \in 1..Len(ss)
    THEN [sessions |-> [ss EXCEPT ![session_id].is_active = FALSE], count |-> 1]
    ELSE [sessions |-> ss, count |-> 0]

_revoke_session(ss, session_id) ==
    IF session_id \in 1..Len(ss) /\ ss[session_id].is_active
    THEN [sessions |-> [ss EXCEPT ![session_id].is_active = FALSE], count |-> 1]
    ELSE [sessions |-> ss, count |-> 0]

\* a revoke-all that selects every session of the user and flips its flag
_revoke_all_user_sessions_flip(ss, user_id) ==
    [sessions |-> [i \in 1..Len(ss) |->
                     IF ss[i].user_id = user_id
                     THEN [ss[i] EXCEPT !.is_active = ~ss[i].is_active] ELSE ss[i]],
     count |-> Cardinality({i \in 1..Len(ss) : ss[i].user_id = user_id})]

_revoke_all_user_sessions(ss, user_id) ==
    [sessions |-> [i \in 1..Len(ss) |->
                     IF ss[i].user_id = user_id /\ ss[i].is_active
                     THEN [ss[i] EXCEPT !.is_active = FALSE] ELSE ss[i]],
     count |-> Cardinality({i \in 1..Len(ss) : ss[i].user_id = user_id /\ ss[i].is_active})]

\* session.last_used_at = datetime.utcnow(); commit
touch(ss, session_id, t) == [ss EXCEPT ![session_id].last_used_at = t]

is_access_token_expired(session, t) == t > session.access_token_expires_at

-----------------------------------------------------------------------------
\* The call history of a rate-limit key: one entry [t, status] per call.  A
\* call that resets the key (reset_attempts) starts the history afresh; with
\* keep, the resetting call is the first entry of the new history.

CallsOf(key) == IF key \in DOMAIN calls THEN calls[key] ELSE <<>>
CanLog(key, max_calls) == Len(CallsOf(key)) < max_calls
Log(cs, key, t, status, resetting, keep) ==
    LET old == IF key \in DOMAIN cs THEN cs[key] ELSE <<>>
        entry == [t |-> t, status |-> status]
    IN IF status = resetting
       THEN (IF keep THEN DictSet(cs, key, <<entry>>) ELSE DictDel(cs, key))
       ELSE DictSet(cs, key, Append(old, entry))

-----------------------------------------------------------------------------
\* AuthenticationService.authenticate_user

NoIP == "None"
KeyIP(ip) == IF ip = NoIP THEN "unknown" ELSE ip
LoginKey(ip) == <<"login", KeyIP(ip)>>

authenticate_user(us, ss, att, blk, email, password, remember_me, ip, t) ==
    LET rate_key == LoginKey(ip)
        rl == is_allowed(att, blk, rate_key, LOGIN_MAX_ATTEMPTS, LOGIN_WINDOW_MINUTES, t)
        user == _get_user_by_email(us, email)
        fail(status, detail) ==
            [sessions |-> ss, attempts |-> rl.attempts, blocked |-> rl.blocked,
             resp |-> Response("authenticate", status, detail)]
    IN IF ~rl.allowed
       THEN [sessions |-> ss, attempts |-> rl.attempts, blocked |-> rl.blocked,
             resp |-> [Response("authenticate", 429, "Too many login attempts")
                         EXCEPT !.retry = get_retry_after(rl.blocked, rate_key, t)]]
       ELSE IF user = 0 THEN fail(401, "Invalid email or password")
       ELSE IF ~verify_password(password, us[user].hashed_password)
            THEN fail(401, "Invalid email or password")
       ELSE IF ~us[user].is_active THEN fail(401, "Account is deactivated")
       ELSE IF us[user].deleted_at THEN fail(401, "Account not found")
       ELSE IF unique_token_hash_violation(ss)
            THEN fail(500, "Internal Server Error")
       ELSE
         LET ss1 == _create_user_session(ss, user, remember_me, t)
             sid == Len(ss1)
             token_pair == _generate_token_pair(ss1, user, sid, remember_me, t)
             rst == reset_attempts(rl.attempts, rl.blocked, rate_key)
         IN [sessions |-> get_db(ss1, token_pair.sessions, TRUE),
             attempts |-> rst.attempts, blocked |-> rst.blocked,
             resp |-> [Response("authenticate", 200, "Login successful") EXCEPT
                         !.access_token = token_pair.access_token,
                         !.refresh_token = token_pair.refresh_token,
                         !.result = sid]]

Authenticate(email, password, remember_me, ip) ==
    LET r == authenticate_user(users, sessions, rl_attempts, rl_blocked,
                               email, password, remember_me, ip, now)
    IN /\ Len(r.sessions) <= MaxSessions
       /\ CanLog(LoginKey(ip), MaxCalls)
       /\ sessions' = r.sessions
       /\ rl_attempts' = r.attempts
       /\ rl_blocked' = r.blocked
       /\ resp' = r.resp
       /\ calls' = Log(calls, LoginKey(ip), now, r.resp.status, 200, FALSE)
       /\ UNCHANGED <<inflight, users, now>>

-----------------------------------------------------------------------------
\* AuthenticationService.register_user

NewUser(email, password) ==
    [email |-> email, hashed_password |-> hash_password(password),
     email_verified |-> FALSE, is_active |-> TRUE, deleted_at |-> FALSE]

RegisterKey(ip) == <<"register", KeyIP(ip)>>

register_user(us, att, blk, email, password, ip, t) ==
    LET rate_key == RegisterKey(ip)
        rl == is_allowed(att, blk, rate_key, REGISTER_MAX_ATTEMPTS, REGISTER_WINDOW_MINUTES, t)
        existing_user == _get_user_by_email(us, email)
    IN IF ~rl.allowed
       THEN [users |-> us, attempts |-> rl.attempts, blocked |-> rl.blocked,
             resp |-> [Response("register", 429, "Too many registration attempts")
                         EXCEPT !.retry = get_retry_after(rl.blocked, rate_key, t)]]
       ELSE IF existing_user # 0
       THEN [users |-> us, attempts |-> rl.attempts, blocked |-> rl.blocked,
             resp |-> Response("register", 409, "User with this email already exists")]
       ELSE
         LET us1 == Append(us, NewUser(email, password))
             user == Len(us1)
             rst == reset_attempts(rl.attempts, rl.blocked, rate_key)
         IN [users |-> us1, attempts |-> rst.attempts, blocked |-> rst.blocked,
             resp |-> [Response("register", 201, "User registered successfully") EXCEPT
                         !.access_token = create_email_verification_token(user, t),
                         !.result = user]]

Register(email, password, ip) ==
    LET r == register_user(users, rl_attempts, rl_blocked, email, password, ip, now)
    IN /\ Len(r.users) <= MaxUsers
       /\ CanLog(RegisterKey(ip), MaxCallsRegister)
       /\ users' = r.users
       /\ rl_attempts' = r.attempts
       /\ rl_blocked' = r.blocked
       /\ resp' = r.resp
       /\ calls' = Log(calls, RegisterKey(ip), now, r.resp.status, 201, TRUE)
       /\ UNCHANGED <<inflight, sessions, now>>

-----------------------------------------------------------------------------
\* AuthenticationService.refresh_token

\* a refresh that rotates the refresh token
refresh_token_rotating(us, ss, token, t) ==
    LET payload == decode_token(token, t)
        user == _get_user_by_id(us, payload.sub)
        session == _get_active_session(ss, payload.session_id, payload.sub)
        fail(detail) == [sessions |-> ss, resp |-> Response("refresh", 401, detail)]
    IN IF payload = None THEN fail("Invalid refresh token")
       ELSE IF ~validate_token_type(payload, REFRESH) THEN fail("Invalid token type")
       ELSE IF user = 0 \/ ~us[user].is_active \/ us[user].deleted_at
            THEN fail("User not found or inactive")
       ELSE IF session = 0 THEN fail("Session not found or expired")
       ELSE [sessions |-> touch(ss, session, t),
             resp |-> [Response("refresh", 200, "Token refreshed") EXCEPT
                         !.access_token = create_access_token(user, session, t),
                         !.refresh_token = create_refresh_token(user, session, t),
                         !.result = session]]

refresh_token(us, ss, token, t) ==
    LET payload == decode_token(token, t)
        user_id == payload.sub
        session_id == payload.session_id
        user == _get_user_by_id(us, user_id)
        session == _get_active_session(ss, session_id, user_id)
        fail(detail) == [sessions |-> ss, resp |-> Response("refresh", 401, detail)]
    IN IF payload = None THEN fail("Invalid refresh token")
       ELSE IF ~validate_token_type(payload, REFRESH) THEN fail("Invalid token type")
       ELSE IF is_token_expired(payload, t) THEN fail("Refresh token expired")
       ELSE IF user = 0 \/ ~us[user].is_active \/ us[user].deleted_at
            THEN fail("User not found or inactive")
       ELSE IF session = 0 THEN fail("Session not found or expired")
       ELSE [sessions |-> touch(ss, session, t),
             resp |-> [Response("refresh", 200, "Token refreshed") EXCEPT
                         !.access_token = create_access_token(user, session, t),
                         !.refresh_token = token,
                         !.result = session]]

Refresh(token) ==
    LET r == refresh_token(users, sessions, token, now)
    IN /\ sessions' = r.sessions
       /\ resp' = r.resp
       /\ UNCHANGED <<inflight, users, rl_attempts, rl_blocked, now, calls>>

-----------------------------------------------------------------------------
\* dependencies.get_current_user_session: the resolver of protected requests.
\* NoCredentials is a request without an Authorization header.

NoCredentials == [token_type |-> "missing", sub |-> 0, session_id |-> NoSession, exp |-> 0]

\* line 97 evaluates JWTManager.datetime, an attribute the class does not have:
\* the AttributeError leaves the handler before the commit, the request fails
\* with an internal server error and last_used_at is not written
resolver_touch(ss, session, t) ==
    [sessions |-> ss,
     resp |-> Response("resolve", 500, "AttributeError: JWTManager.datetime")]

get_current_user_session(us, ss, credentials, t) ==
    LET payload == decode_token(credentials, t)
        user_id == payload.sub
        session_id == payload.session_id
        user == _get_user_by_id(us, user_id)
        session == _get_active_session(ss, session_id, user_id)
        fail(detail) == [sessions |-> ss, resp |-> Response("resolve", 401, detail)]
    IN IF credentials = NoCredentials THEN fail("Missing authentication token")
       ELSE IF payload = None THEN fail("Invalid token")
       ELSE IF ~validate_token_type(payload, ACCESS) THEN fail("Invalid token type")
       ELSE IF is_token_expired(payload, t) THEN fail("Token expired")
       ELSE IF user_id = 0 \/ session_id = NoSession THEN fail("Invalid token payload")
       ELSE IF user = 0 THEN fail("User not found")
       ELSE IF ~us[user].is_active \/ us[user].deleted_at
            THEN fail("Account is inactive or deleted")
       ELSE IF session = 0 THEN fail("Session not found or expired")
       ELSE IF is_access_token_expired(ss[session], t) THEN fail("Session expired")
       ELSE resolver_touch(ss, session, t)

Resolve(credentials) ==
    LET r == get_current_user_session(users, sessions, credentials, now)
    IN /\ sessions' = r.sessions
       /\ resp' = r.resp
       /\ UNCHANGED <<inflight, users, rl_attempts, rl_blocked, now, calls>>

-----------------------------------------------------------------------------
\* AuthenticationService.verify_email

\* a verification that refuses a user whose email is already verified
verify_email_once(us, token, t) ==
    LET payload == decode_token(token, t)
        user == _get_user_by_id(us, payload.sub)
        fail(status, detail) == [users |-> us, resp |-> Response("verify_email", status, detail)]
    IN IF payload = None THEN fail(400, "Invalid verification token")
       ELSE IF ~validate_token_type(payload, EMAIL_VERIFICATION)
            THEN fail(400, "Invalid token type")
       ELSE IF user = 0 THEN fail(404, "User not found")
       ELSE IF us[user].email_verified THEN fail(400, "Email already verified")
       ELSE [users |-> [us EXCEPT ![user].email_verified = TRUE],
             resp |-> [Response("verify_email", 200, "Email verified") EXCEPT !.result = user]]

verify_email(us, token, t) ==
    LET payload == decode_token(token, t)
        user == _get_user_by_id(us, payload.sub)
        fail(status, detail) == [users |-> us, resp |-> Response("verify_email", status, detail)]
    IN IF payload = None THEN fail(400, "Invalid verification token")
       ELSE IF ~validate_token_type(payload, EMAIL_VERIFICATION)
            THEN fail(400, "Invalid token type")
       ELSE IF is_token_expired(payload, t) THEN fail(400, "Verification token expired")
       ELSE IF user = 0 THEN fail(404, "User not found")
       ELSE [users |-> [us EXCEPT ![user].email_verified = TRUE],
             resp |-> [Response("verify_email", 200, "Email verified") EXCEPT !.result = user]]

VerifyEmail(token) ==
    LET r == verify_email(users, token, now)
    IN /\ users' = r.users
       /\ resp' = r.resp
       /\ UNCHANGED <<inflight, sessions, rl_attempts, rl_blocked, now, calls>>

-----------------------------------------------------------------------------
\* AuthenticationService.request_password_reset: returns the token or None

\* a request that mints a token for every existing user, active or not
request_password_reset_any_user(us, email, t) ==
    LET user == _get_user_by_email(us, email)
    IN IF user = 0
       THEN Response("request_password_reset", 200, "None")
       ELSE [Response("request_password_reset", 200, "token") EXCEPT
               !.access_token = create_password_reset_token(user, t),
               !.result = user]

request_password_reset(us, email, t) ==
    LET user == _get_user_by_email(us, email)
    IN IF user = 0 \/ ~us[user].is_active \/ us[user].deleted_at
       THEN Response("request_password_reset", 200, "None")
       ELSE [Response("request_password_reset", 200, "token") EXCEPT
               !.access_token = create_password_reset_token(user, t),
               !.result = user]

RequestPasswordReset(email) ==
    /\ resp' = request_password_reset(users, email, now)
    /\ UNCHANGED <<inflight, users, sessions, rl_attempts, rl_blocked, now, calls>>

-----------------------------------------------------------------------------
\* AuthenticationService.reset_password

\* a reset that changes the password and leaves the sessions alone
reset_password_keeps_sessions(us, ss, token, new_password, t) ==
    LET payload == decode_token(token, t)
        user == _get_user_by_id(us, payload.sub)
        fail(status, detail) ==
            [users |-> us, sessions |-> ss, resp |-> Response("reset_password", status, detail)]
    IN IF payload = None THEN fail(400, "Invalid reset token")
       ELSE IF ~validate_token_type(payload, PASSWORD_RESET) THEN fail(400, "Invalid token type")
       ELSE IF is_token_expired(payload, t) THEN fail(400, "Reset token expired")
       ELSE IF user = 0 \/ ~us[user].is_active \/ us[user].deleted_at
            THEN fail(404, "User not found")
       ELSE [users |-> [us EXCEPT ![user].hashed_password = hash_password(new_password)],
             sessions |-> ss,
             resp |-> [Response("reset_password", 200, "Password reset") EXCEPT
                         !.result = user]]

reset_password(us, ss, token, new_password, t) ==
    LET payload == decode_token(token, t)
        user == _get_user_by_id(us, payload.sub)
        fail(status, detail) ==
            [users |-> us, sessions |-> ss, resp |-> Response("reset_password", status, detail)]
    IN IF payload = None THEN fail(400, "Invalid reset token")
       ELSE IF ~validate_token_type(payload, PASSWORD_RESET) THEN fail(400, "Invalid token type")
       ELSE IF is_token_expired(payload, t) THEN fail(400, "Reset token expired")
       ELSE IF user = 0 \/ ~us[user].is_active \/ us[user].deleted_at
            THEN fail(404, "User not found")
       ELSE LET rv == _revoke_all_user_sessions(ss, user)
            IN [users |-> [us EXCEPT ![user].hashed_password = hash_password(new_password)],
                sessions |-> rv.sessions,
                resp |-> [Response("reset_password", 200, "Password reset") EXCEPT
                            !.result = user]]

ResetPassword(token, new_password) ==
    LET r == reset_password(users, sessions, token, new_password, now)
    IN /\ users' = r.users
       /\ sessions' = r.sessions
       /\ resp' = r.resp
       /\ UNCHANGED <<inflight, rl_attempts, rl_blocked, now, calls>>

-----------------------------------------------------------------------------
\* AuthenticationService.change_password: the caller supplies the user row

change_password(us, user, current_password, new_password) ==
    IF ~verify_password(current_password, us[user].hashed_password)
    THEN [users |-> us, resp |-> Response("change_password", 400, "Current password is incorrect")]
    ELSE [users |-> [us EXCEPT ![user].hashed_password = hash_password(new_password)],
          resp |-> [Response("change_password", 200, "Password changed") EXCEPT !.result = user]]

ChangePassword(user, current_password, new_password) ==
    LET r == change_password(users, user, current_password, new_password)
    IN /\ user \in 1..Len(users)
       /\ users' = r.users
       /\ resp' = r.resp
       /\ UNCHANGED <<inflight, sessions, rl_attempts, rl_blocked, now, calls>>

-----------------------------------------------------------------------------
\* AuthenticationService.logout_user and revoke_session

logout_user(ss, session_id, revoke_all) ==
    IF revoke_all
    THEN LET session == _get_session_by_id(ss, session_id)
         IN IF session # 0 THEN _revoke_all_user_sessions(ss, ss[session].user_id)
            ELSE [sessions |-> ss, count |-> 0]
    ELSE _revoke_session(ss, session_id)

Logout(session_id, revoke_all) ==
    LET r == logout_user(sessions, session_id, revoke_all)
    IN /\ sessions' = r.sessions
       /\ resp' = [Response("logout", 200, "Logged out") EXCEPT !.result = r.count]
       /\ UNCHANGED <<inflight, users, rl_attempts, rl_blocked, now, calls>>

revoke_session(ss, session_id, user_id) ==
    IF _get_active_session(ss, session_id, user_id) = 0
    THEN [sessions |-> ss, result |-> FALSE]
    ELSE [sessions |-> [ss EXCEPT ![session_id].is_active = FALSE], result |-> TRUE]

RevokeSession(session_id, user_id) ==
    LET r == revoke_session(sessions, session_id, user_id)
    IN /\ sessions' = r.sessions
       /\ resp' = [Response("revoke_session", 200, "") EXCEPT
                     !.result = IF r.result THEN 1 ELSE 0]
       /\ UNCHANGED <<inflight, users, rl_attempts, rl_blocked, now, calls>>

-----------------------------------------------------------------------------
\* CRUDUser: account lifecycle (crud_user.py)

soft_delete(us, user_id) ==
    IF _get_user_by_id(us, user_id) = 0 \/ us[user_id].deleted_at THEN us
    ELSE [us EXCEPT ![user_id].deleted_at = TRUE, ![user_id].is_active = FALSE]

deactivate_user(us, user) == [us EXCEPT ![user].is_active = FALSE]

activate_user(us, user) ==
    [us EXCEPT ![user].is_active = TRUE, ![user].deleted_at = FALSE]

SoftDelete(user_id) ==
    /\ users' = soft_delete(users, user_id)
    /\ resp' = Response("soft_delete", 200, "")
    /\ UNCHANGED <<inflight, sessions, rl_attempts, rl_blocked, now, calls>>

Deactivate(user) ==
    /\ user \in 1..Len(users)
    /\ users' = deactivate_user(users, user)
    /\ resp' = Response("deactivate", 200, "")
    /\ UNCHANGED <<inflight, sessions, rl_attempts, rl_blocked, now, calls>>

Activate(user) ==
    /\ user \in 1..Len(users)
    /\ users' = activate_user(users, user)
    /\ resp' = Response("activate", 200, "")
    /\ UNCHANGED <<inflight, sessions, rl_attempts, rl_blocked, now, calls>>

-----------------------------------------------------------------------------
\* The tokens a client can present at time t: for every purpose, subject and
\* session id, the token JWTManager mints now and the one it minted one minute
\* more than the purpose's lifetime ago (expired by now), or a string that is
\* no token at all.  Ids one past the tables name rows that do not exist.

UserIds == 1..(MaxUsers + 1)
SessionIds == 1..(MaxSessions + 1)

Lifetime(token_type) ==
    CASE token_type = ACCESS -> ACCESS_TOKEN_EXPIRE_MINUTES
      [] token_type = REFRESH -> REFRESH_TOKEN_EXPIRE_DAYS * MinutesPerDay
      [] token_type = EMAIL_VERIFICATION -> EMAIL_VERIFICATION_EXPIRE_HOURS * MinutesPerHour
      [] token_type = PASSWORD_RESET -> PASSWORD_RESET_EXPIRE_HOURS * MinutesPerHour

MintTimes(token_type, t) == {t, t - Lifetime(token_type) - 1}

Tokens(t) ==
    {Garbage}
    \cup {create_access_token(u, s, iat) :
            u \in UserIds, s \in SessionIds, iat \in MintTimes(ACCESS, t)}
    \cup {create_refresh_token(u, s, iat) :
            u \in UserIds, s \in SessionIds, iat \in MintTimes(REFRESH, t)}
    \cup {create_email_verification_token(u, iat) :
            u \in UserIds, iat \in MintTimes(EMAIL_VERIFICATION, t)}
    \cup {create_password_reset_token(u, iat) :
            u \in UserIds, iat \in MintTimes(PASSWORD_RESET, t)}

-----------------------------------------------------------------------------
\* The clock

Tick(max_ticks) ==
    /\ now < max_ticks * TickStep
    /\ now' = now + TickStep
    /\ UNCHANGED <<inflight, users, sessions, rl_attempts, rl_blocked, resp, calls>>

-----------------------------------------------------------------------------

\* Session and token lifecycle.  Two registered users, as left by two
\* successful register calls; clients log in with their current password.
Init ==
    /\ users = <<NewUser("a@example.com", "pw1"), NewUser("b@example.com", "pw2")>>
    /\ sessions = <<>>
    /\ rl_attempts = EmptyDict
    /\ rl_blocked = EmptyDict
    /\ now = 0
    /\ resp = Response("init", 0, "")
    /\ calls = EmptyDict
    /\ inflight = {}

Login == \E u \in 1..Len(users), rm \in {FALSE} :
            Authenticate(users[u].email, users[u].hashed_password.of, rm, "ip1")
DoRefresh == \E tok \in Tokens(now) : Refresh(tok)
DoResolve == \E tok \in Tokens(now) \cup {NoCredentials} : Resolve(tok)
DoVerifyEmail == \E tok \in Tokens(now) : VerifyEmail(tok)
DoRequestPasswordReset == \E e \in Emails \cup {UnknownEmail} : RequestPasswordReset(e)
DoResetPassword == \E tok \in Tokens(now) : ResetPassword(tok, "pw2")
DoChangePassword == \E u \in UserIds, p \in Passwords : ChangePassword(u, p, "pw2")
DoLogout == \E s \in SessionIds, all \in BOOLEAN : Logout(s, all)
DoRevokeSession == \E s \in SessionIds, u \in UserIds : RevokeSession(s, u)
DoTick == Tick(MaxTicks)

Next ==
    \/ Login
    \/ DoRefresh
    \/ DoResolve
    \/ DoVerifyEmail
    \/ DoRequestPasswordReset
    \/ DoResetPassword
    \/ DoChangePassword
    \/ DoLogout
    \/ DoRevokeSession
    \/ DoTick

Spec == Init /\ [][Next]_vars
-----------------------------------------------------------------------------
\* Properties of the session and token lifecycle (Spec)

ActiveOwned(ss, session_id, user_id) ==
    /\ session_id \in 1..Len(ss)
    /\ ss[session_id].is_active
    /\ ss[session_id].user_id = user_id

UsableUser(us, user_id) ==
    /\ user_id \in 1..Len(us)
    /\ us[user_id].is_active
    /\ ~us[user_id].deleted_at

Presentable == Tokens(now) \cup {resp.access_token, resp.refresh_token}

\* C1: a session whose active flag is false never has it set back to true by
\* any later operation, and is never removed from the table.
C1_NeverResurrected ==
    [][\A i \in 1..Len(sessions) :
          ~sessions[i].is_active =>
              (i <= Len(sessions') /\ ~sessions'[i].is_active)]_vars

\* a refresh was attempted on a revoked session after the same user logged in again
C1_Witness ==
    /\ resp.op = "refresh"
    /\ resp.detail = "Session not found or expired"
    /\ \E i, j \in 1..Len(sessions) :
          /\ i < j
          /\ sessions[i].user_id = sessions[j].user_id
          /\ ~sessions[i].is_active
          /\ sessions[j].is_active

\* C2: in every reachable state a token whose session id names a session that
\* is revoked, absent or owned by another user than the token's subject is
\* rejected with 401 by refresh and by the protected-request resolver.
C2_DeadSessionRejected ==
    \A tok \in Presentable :
        ~ActiveOwned(sessions, tok.session_id, tok.sub) =>
            /\ refresh_token(users, sessions, tok, now).resp.status = 401
            /\ get_current_user_session(users, sessions, tok, now).resp.status = 401

\* the access token of a login was presented after that session had been revoked
C2_Witness ==
    /\ resp.op = "resolve"
    /\ resp.status = 401
    /\ resp.detail = "Session not found or expired"
    /\ \E i \in 1..Len(sessions) : ~sessions[i].is_active

\* C3: a successful resetPassword leaves the user without any active session
\* and leaves the sessions of every other user as they were.
C3_ResetRevokesAll ==
    \A tok \in Presentable, new_password \in Passwords :
        LET r == reset_password(users, sessions, tok, new_password, now)
        IN r.resp.status = 200 =>
             /\ Len(r.sessions) = Len(sessions)
             /\ \A i \in 1..Len(sessions) :
                   IF sessions[i].user_id = tok.sub
                   THEN ~r.sessions[i].is_active
                   ELSE r.sessions[i] = sessions[i]

\* a reset has succeeded for a user who has a (now revoked) session while a
\* session of another user is still active
C3_Witness ==
    /\ resp.op = "reset_password"
    /\ resp.status = 200
    /\ \E i, j \in 1..Len(sessions) :
          /\ sessions[i].user_id = resp.result
          /\ ~sessions[i].is_active
          /\ sessions[j].user_id # resp.result
          /\ sessions[j].is_active

\* C4: a protected request that presents the access token just issued by a
\* successful authenticate or refresh resolves without error while the token
\* is unexpired, the session active and the user active and not deleted.
C4_IssuedTokenResolves ==
    [][(/\ resp.op \in {"authenticate", "refresh"}
        /\ resp.status = 200
        /\ ~is_token_expired(resp.access_token, now)
        /\ ActiveOwned(sessions, resp.access_token.session_id, resp.access_token.sub)
        /\ UsableUser(users, resp.access_token.sub)
        /\ Resolve(resp.access_token))
       => resp'.status = 200]_vars

\* C5: a token is accepted only by the operation of its purpose; with a token
\* of any other purpose the operation fails and changes no user or session.
C5_PurposeIsolation ==
    \A tok \in Presentable :
        /\ tok.token_type # REFRESH =>
             LET r == refresh_token(users, sessions, tok, now)
             IN r.resp.status # 200 /\ r.sessions = sessions
        /\ tok.token_type # EMAIL_VERIFICATION =>
             LET r == verify_email(users, tok, now)
             IN r.resp.status # 200 /\ r.users = users
        /\ tok.token_type # PASSWORD_RESET =>
             \A new_password \in Passwords :
                LET r == reset_password(users, sessions, tok, new_password, now)
                IN r.resp.status # 200 /\ r.users = users /\ r.sessions = sessions
        /\ tok.token_type # ACCESS =>
             LET r == get_current_user_session(users, sessions, tok, now)
             IN r.resp.status = 401 /\ r.sessions = sessions

\* a token of another purpose was refused by resetPassword while a session was live
C5_Witness ==
    /\ resp.op = "reset_password"
    /\ resp.status = 400
    /\ resp.detail = "Invalid token type"
    /\ \E i \in 1..Len(sessions) : sessions[i].is_active

-----------------------------------------------------------------------------
\* Login under the rate limiter and the account lifecycle: one client address
\* tries any credentials on the first account, the second account logs in from
\* another address, an administrator acts on the first account.

AnyLogin == \E e \in {"a@example.com", UnknownEmail}, p \in Passwords :
               Authenticate(e, p, FALSE, "ip1")
OtherLogin == Authenticate("b@example.com", "pw2", FALSE, "ip2")
DoSoftDelete == SoftDelete(1)
DoDeactivate == Deactivate(1)
DoActivate == Activate(1)
TickLogin == Tick(MaxTicksLogin)

NextLogin ==
    \/ AnyLogin
    \/ OtherLogin
    \/ DoSoftDelete
    \/ DoDeactivate
    \/ DoActivate
    \/ TickLogin

SpecLogin == Init /\ [][NextLogin]_vars

\* Properties of login (SpecLogin)

LoginEmails == Emails \cup {UnknownEmail}
LoginIPs == {"ip1", "ip2"}

HasEmail(us, email) == \E i \in 1..Len(us) : us[i].email = email
RowOf(us, email) == CHOOSE i \in 1..Len(us) : us[i].email = email

\* the detail the four failure cases give, in the order the handler tests them
ExpectedLoginFailure(us, email, password) ==
    IF ~HasEmail(us, email) THEN "Invalid email or password"
    ELSE IF us[RowOf(us, email)].hashed_password # hash_password(password)
         THEN "Invalid email or password"
    ELSE IF ~us[RowOf(us, email)].is_active THEN "Account is deactivated"
    ELSE IF us[RowOf(us, email)].deleted_at THEN "Account not found"
    ELSE "none"

FailedInWindow(key) ==
    Cardinality({i \in 1..Len(CallsOf(key)) :
                   /\ CallsOf(key)[i].status = 401
                   /\ CallsOf(key)[i].t > now - LOGIN_WINDOW_MINUTES})

\* C8: after 5 failed attempts from a client address inside the 15-minute
\* window the next authenticate from that address is rejected with 429
\* whatever its credentials, and while fewer than 5 calls were made from the
\* address since its last successful login no call is rejected with 429.
C8_LoginLimit ==
    \A ip \in LoginIPs, e \in LoginEmails, p \in Passwords :
        LET r == authenticate_user(users, sessions, rl_attempts, rl_blocked,
                                   e, p, FALSE, ip, now).resp
        IN /\ FailedInWindow(LoginKey(ip)) >= LOGIN_MAX_ATTEMPTS => r.status = 429
           /\ Len(CallsOf(LoginKey(ip))) < LOGIN_MAX_ATTEMPTS => r.status # 429

\* the first account logged in from ip1, then 5 attempts failed and the next
\* call from ip1 was rejected
C8_Witness ==
    /\ resp.op = "authenticate"
    /\ resp.status = 429
    /\ \E i \in 1..Len(sessions) : sessions[i].user_id = 1
    /\ FailedInWindow(LoginKey("ip1")) >= LOGIN_MAX_ATTEMPTS
    /\ CallsOf(LoginKey("ip1"))[Len(CallsOf(LoginKey("ip1")))].status = 429

-----------------------------------------------------------------------------
\* Registration under the rate limiter, from an empty users table: one client
\* address registers any email, a client without address the second email.

InitEmpty ==
    /\ users = <<>>
    /\ sessions = <<>>
    /\ rl_attempts = EmptyDict
    /\ rl_blocked = EmptyDict
    /\ now = 0
    /\ resp = Response("init", 0, "")
    /\ calls = EmptyDict
    /\ inflight = {}

DoRegister == \E e \in Emails : Register(e, "pw1", "ip1")
OtherRegister == Register("b@example.com", "pw2", NoIP)
TickRegister == Tick(MaxTicksRegister)

NextRegister ==
    \/ DoRegister
    \/ OtherRegister
    \/ TickRegister

SpecRegister == InitEmpty /\ [][NextRegister]_vars

\* Properties of registration (SpecRegister)

RegisterIPs == {"ip1", NoIP}

CallsInWindow(key) ==
    Cardinality({i \in 1..Len(CallsOf(key)) :
                   CallsOf(key)[i].t > now - REGISTER_WINDOW_MINUTES})

ConflictsInWindow(key) ==
    Cardinality({i \in 1..Len(CallsOf(key)) :
                   /\ CallsOf(key)[i].status = 409
                   /\ CallsOf(key)[i].t > now - REGISTER_WINDOW_MINUTES})

\* C9 as stated: after three register calls from one address within 60
\* minutes, whatever their outcomes, the next one is rejected with 429.
C9_ThreeCallsOfAnyOutcome ==
    \A ip \in RegisterIPs, e \in Emails, p \in Passwords :
        CallsInWindow(RegisterKey(ip)) >= REGISTER_MAX_ATTEMPTS =>
            register_user(users, rl_attempts, rl_blocked, e, p, ip, now).resp.status = 429

\* C9 amended: after three register calls from one address within 60 minutes
\* that each failed with Conflict, none of them followed by a successful
\* register from that address, the next register call from it is rejected
\* with 429 and creates no user.
C9_ThreeConflicts ==
    \A ip \in RegisterIPs, e \in Emails, p \in Passwords :
        LET r == register_user(users, rl_attempts, rl_blocked, e, p, ip, now)
        IN ConflictsInWindow(RegisterKey(ip)) >= REGISTER_MAX_ATTEMPTS =>
             (r.resp.status = 429 /\ r.users = users)

\* three conflicts from ip1, then a fourth call from ip1 was rejected
C9_Witness ==
    /\ resp.op = "register"
    /\ resp.status = 429
    /\ ConflictsInWindow(RegisterKey("ip1")) >= REGISTER_MAX_ATTEMPTS
    /\ Len(CallsOf(RegisterKey("ip1"))) = REGISTER_MAX_ATTEMPTS + 1
    /\ CallsOf(RegisterKey("ip1"))[REGISTER_MAX_ATTEMPTS + 1].status = 429

-----------------------------------------------------------------------------
\* HTTP endpoints of api_v1/endpoints/auth.py behind the rate_limit dependency

ApiKey(ip) == <<"api", KeyIP(ip)>>

RESEND_MAX_ATTEMPTS == 3
RESEND_WINDOW_MINUTES == 15
PASSWORD_RESET_MAX_ATTEMPTS == 3
PASSWORD_RESET_WINDOW_MINUTES == 15

\* a dependency that keeps one history per endpoint and address
rate_limiter_dependency_per_endpoint(att, blk, op, ip, max_attempts, window_minutes, t) ==
    LET rate_key == <<"api", op, KeyIP(ip)>>
        rl == is_allowed(att, blk, rate_key, max_attempts, window_minutes, t)
    IN [allowed |-> rl.allowed, attempts |-> rl.attempts, blocked |-> rl.blocked,
        resp |-> [Response(op, 429, "Rate limit exceeded")
                    EXCEPT !.retry = get_retry_after(rl.blocked, rate_key, t)]]

\* dependencies.rate_limit: the dependency runs before the endpoint body
rate_limiter_dependency(att, blk, op, ip, max_attempts, window_minutes, t) ==
    LET rate_key == ApiKey(ip)
        rl == is_allowed(att, blk, rate_key, max_attempts, window_minutes, t)
    IN [allowed |-> rl.allowed, attempts |-> rl.attempts, blocked |-> rl.blocked,
        resp |-> [Response(op, 429, "Rate limit exceeded")
                    EXCEPT !.retry = get_retry_after(rl.blocked, rate_key, t)]]

\* POST /register
register_endpoint(us, att, blk, email, password, ip, t) ==
    LET dep == rate_limiter_dependency(att, blk, "POST /register", ip,
                                       REGISTER_MAX_ATTEMPTS, REGISTER_WINDOW_MINUTES, t)
        r == register_user(us, dep.attempts, dep.blocked, email, password, ip, t)
    IN IF ~dep.allowed
       THEN [users |-> us, attempts |-> dep.attempts, blocked |-> dep.blocked, resp |-> dep.resp]
       ELSE IF r.resp.status = 201
       THEN [users |-> r.users, attempts |-> r.attempts, blocked |-> r.blocked,
             resp |-> [Response("POST /register", 201, "UserRegisterResponse")
                         EXCEPT !.access_token = r.resp.access_token,
                                !.result = r.resp.result]]
       ELSE [users |-> r.users, attempts |-> r.attempts, blocked |-> r.blocked,
             resp |-> [r.resp EXCEPT !.op = "POST /register"]]

RegisterEndpoint(email, password, ip) ==
    LET r == register_endpoint(users, rl_attempts, rl_blocked, email, password, ip, now)
    IN /\ Len(r.users) <= MaxUsers
       /\ users' = r.users
       /\ rl_attempts' = r.attempts
       /\ rl_blocked' = r.blocked
       /\ resp' = r.resp
       /\ UNCHANGED <<inflight, sessions, now, calls>>

\* POST /resend-verification: auth_service.JWTManager is not an attribute of
\* AuthenticationService, so the branch for an unverified user raises
resend_verification_email(us, att, blk, email, ip, t) ==
    LET dep == rate_limiter_dependency(att, blk, "POST /resend-verification", ip,
                                       RESEND_MAX_ATTEMPTS, RESEND_WINDOW_MINUTES, t)
        user == _get_user_by_email(us, email)
    IN IF ~dep.allowed
       THEN [attempts |-> dep.attempts, blocked |-> dep.blocked, resp |-> dep.resp]
       ELSE IF user # 0 /\ ~us[user].email_verified
       THEN [attempts |-> dep.attempts, blocked |-> dep.blocked,
             resp |-> Response("POST /resend-verification", 500,
                               "AttributeError: AuthenticationService.JWTManager")]
       ELSE [attempts |-> dep.attempts, blocked |-> dep.blocked,
             resp |-> Response("POST /resend-verification", 200, "ResendVerificationResponse")]

ResendVerificationEndpoint(email, ip) ==
    LET r == resend_verification_email(users, rl_attempts, rl_blocked, email, ip, now)
    IN /\ rl_attempts' = r.attempts
       /\ rl_blocked' = r.blocked
       /\ resp' = r.resp
       /\ UNCHANGED <<inflight, users, sessions, now, calls>>

\* POST /password-reset: the token goes to the mail task, never to the response
request_password_reset_endpoint(us, att, blk, email, ip, t) ==
    LET dep == rate_limiter_dependency(att, blk, "POST /password-reset", ip,
                                       PASSWORD_RESET_MAX_ATTEMPTS,
                                       PASSWORD_RESET_WINDOW_MINUTES, t)
        reset_token == request_password_reset(us, email, t)
    IN IF ~dep.allowed
       THEN [attempts |-> dep.attempts, blocked |-> dep.blocked, resp |-> dep.resp]
       ELSE [attempts |-> dep.attempts, blocked |-> dep.blocked,
             resp |-> Response("POST /password-reset", 200, "PasswordResetResponse")]

PasswordResetEndpoint(email, ip) ==
    LET r == request_password_reset_endpoint(users, rl_attempts, rl_blocked, email, ip, now)
    IN /\ rl_attempts' = r.attempts
       /\ rl_blocked' = r.blocked
       /\ resp' = r.resp
       /\ UNCHANGED <<inflight, users, sessions, now, calls>>

EndpointIPs == {"ip1", NoIP}

PostRegister == \E e \in Emails : RegisterEndpoint(e, "pw1", "ip1")
PostResendVerification == \E e \in Emails : ResendVerificationEndpoint(e, "ip1")
PostPasswordReset == \E e \in Emails : PasswordResetEndpoint(e, "ip1")
PostVerifyEmail == \E u \in 1..MaxUsers : VerifyEmail(create_email_verification_token(u, now))
TickEndpoints == Tick(MaxTicksEndpoints)

NextEndpoints ==
    \/ PostRegister
    \/ PostResendVerification
    \/ PostPasswordReset
    \/ PostVerifyEmail
    \/ TickEndpoints

SpecEndpoints == InitEmpty /\ [][NextEndpoints]_vars

\* C7: from any reachable state and client address, register, password-reset
\* request and resend-verification answer an email that belongs to a user
\* (verified or not) exactly as they answer an email that belongs to no user.
C7_SameResponseForAnyEmail ==
    \A ip \in EndpointIPs :
      \A e1 \in Emails, e2 \in Emails \cup {UnknownEmail} :
        (_get_user_by_email(users, e1) # 0 /\ _get_user_by_email(users, e2) = 0) =>
          LET same(r1, r2) == r1.status = r2.status /\ r1.detail = r2.detail
          IN /\ same(register_endpoint(users, rl_attempts, rl_blocked, e1, "pw1", ip, now).resp,
                     register_endpoint(users, rl_attempts, rl_blocked, e2, "pw1", ip, now).resp)
             /\ same(resend_verification_email(users, rl_attempts, rl_blocked, e1, ip, now).resp,
                     resend_verification_email(users, rl_attempts, rl_blocked, e2, ip, now).resp)
             /\ same(request_password_reset_endpoint(users, rl_attempts, rl_blocked, e1, ip, now).resp,
                     request_password_reset_endpoint(users, rl_attempts, rl_blocked, e2, ip, now).resp)


-----------------------------------------------------------------------------
\* The RateLimiter on its own (SpecRL).  A key carries the max_attempts and
\* window_minutes its caller always passes, as every caller in the program does.

RLParams == {<<n, TickStep * 2>> : n \in 1..MaxN} \cup {<<1, TickStep>>}
RLKeys == {<<"rl", p[1], p[2]>> : p \in RLParams}
MaxAttemptsOf(key) == key[2]
WindowOf(key) == key[3]

IsAllowed(key) ==
    LET r == is_allowed(rl_attempts, rl_blocked, key, MaxAttemptsOf(key), WindowOf(key), now)
    IN /\ CanLog(key, MaxN + 1)
       /\ Cardinality(DOMAIN rl_attempts \cup DOMAIN rl_blocked \cup DOMAIN calls \cup {key})
             <= MaxLiveKeys
       /\ rl_attempts' = r.attempts
       /\ rl_blocked' = r.blocked
       /\ resp' = Response("is_allowed", IF r.allowed THEN 200 ELSE 429,
                           IF r.allowed THEN "True" ELSE "False")
       /\ calls' = Log(calls, key, now, IF r.allowed THEN 200 ELSE 429, 0, FALSE)
       /\ UNCHANGED <<inflight, users, sessions, now>>

ResetAttempts(key) ==
    LET r == reset_attempts(rl_attempts, rl_blocked, key)
    IN /\ rl_attempts' = r.attempts
       /\ rl_blocked' = r.blocked
       /\ resp' = Response("reset_attempts", 0, "None")
       /\ calls' = DictDel(calls, key)
       /\ UNCHANGED <<inflight, users, sessions, now>>

GetRetryAfter(key) ==
    /\ resp' = [Response("get_retry_after", 0, "") EXCEPT
                  !.retry = get_retry_after(rl_blocked, key, now)]
    /\ UNCHANGED <<inflight, users, sessions, rl_attempts, rl_blocked, now, calls>>

clear_all == [attempts |-> EmptyDict, blocked |-> EmptyDict]

ClearAll ==
    /\ rl_attempts' = clear_all.attempts
    /\ rl_blocked' = clear_all.blocked
    /\ resp' = Response("clear_all", 0, "None")
    /\ calls' = EmptyDict
    /\ UNCHANGED <<inflight, users, sessions, now>>

DoIsAllowed == \E key \in RLKeys : IsAllowed(key)
DoResetAttempts == \E key \in RLKeys : ResetAttempts(key)
DoGetRetryAfter == \E key \in RLKeys : GetRetryAfter(key)
TickRL == Tick(MaxTicksRL)

NextRL ==
    \/ DoIsAllowed
    \/ DoResetAttempts
    \/ DoGetRetryAfter
    \/ ClearAll
    \/ TickRL

SpecRL == InitEmpty /\ [][NextRL]_vars

\* the calls made on the key since it was last fresh all lie in one window
\* that has not ended yet
InOneWindow(key) ==
    CallsOf(key) # <<>> => now - CallsOf(key)[1].t < WindowOf(key)

\* C10: for a key that was fresh (never used, or reset) and any N in 1..MaxN,
\* while all calls fall inside one window the k-th call was allowed exactly
\* when k <= N, and the next call is allowed exactly when fewer than N calls
\* have been made: the first N calls return true and the (N+1)-th false.
C10_FirstNThenRefuse ==
    \A key \in RLKeys :
        InOneWindow(key) =>
            /\ \A k \in 1..Len(CallsOf(key)) :
                   (CallsOf(key)[k].status = 200) <=> (k <= MaxAttemptsOf(key))
            /\ is_allowed(rl_attempts, rl_blocked, key, MaxAttemptsOf(key),
                          WindowOf(key), now).allowed
                   <=> (Len(CallsOf(key)) < MaxAttemptsOf(key))

\* a key with N = MaxN was called N + 1 times inside one window, at more than
\* one instant, and only the last call was refused
C10_Witness ==
    \E key \in RLKeys :
        /\ MaxAttemptsOf(key) = MaxN
        /\ Len(CallsOf(key)) = MaxN + 1
        /\ InOneWindow(key)
        /\ CallsOf(key)[1].t < CallsOf(key)[MaxN + 1].t
        /\ CallsOf(key)[MaxN].status = 200
        /\ CallsOf(key)[MaxN + 1].status = 429
        /\ resp.op = "is_allowed"
        /\ resp.status = 429

-----------------------------------------------------------------------------
\* The rate-limited branch of register_user, authenticate_user and the
\* rate_limit dependency (SpecRetry): is_allowed reads the clock, then
\* get_retry_after reads it again.  The dependency is a plain def, which
\* FastAPI runs in a worker thread, so another request's is_allowed on the
\* same key can run between the two calls; the service methods run both calls
\* without yielding.

RetrySites ==
    {[op |-> "authenticate", key |-> LoginKey("ip1"), threaded |-> FALSE,
      max_attempts |-> LOGIN_MAX_ATTEMPTS, window_minutes |-> LOGIN_WINDOW_MINUTES],
     [op |-> "register", key |-> RegisterKey("ip1"), threaded |-> FALSE,
      max_attempts |-> REGISTER_MAX_ATTEMPTS, window_minutes |-> REGISTER_WINDOW_MINUTES],
     [op |-> "rate_limit", key |-> ApiKey("ip1"), threaded |-> TRUE,
      max_attempts |-> RESEND_MAX_ATTEMPTS, window_minutes |-> RESEND_WINDOW_MINUTES]}

\* t1 is the clock read by is_allowed, t2 >= t1 the clock read by
\* get_retry_after; with other, a second request calls is_allowed in between
rate_limited_branch(att, blk, site, t1, t2, other) ==
    LET rl == is_allowed(att, blk, site.key, site.max_attempts, site.window_minutes, t1)
        mid == IF other
               THEN is_allowed(rl.attempts, rl.blocked, site.key,
                               site.max_attempts, site.window_minutes, t2)
               ELSE rl
    IN IF rl.allowed
       THEN [attempts |-> rl.attempts, blocked |-> rl.blocked,
             resp |-> Response(site.op, 200, "allowed")]
       ELSE [attempts |-> mid.attempts, blocked |-> mid.blocked,
             resp |-> [Response(site.op, 429, "Too many attempts")
                         EXCEPT !.retry = get_retry_after(mid.blocked, site.key, t2)]]

RateLimitedCall(site, dt, other) ==
    LET r == rate_limited_branch(rl_attempts, rl_blocked, site, now, now + dt, other)
    IN /\ other => site.threaded
       /\ (dt > 0 \/ other) => r.resp.status = 429
       /\ now + dt <= MaxTicksRetry * TickStep
       /\ Cardinality(DOMAIN rl_attempts \cup DOMAIN rl_blocked \cup {site.key}) <= MaxRetryKeys
       /\ rl_attempts' = r.attempts
       /\ rl_blocked' = r.blocked
       /\ resp' = r.resp
       /\ now' = now + dt
       /\ UNCHANGED <<inflight, users, sessions, calls>>

\* the clock stops one unit short of the next multiple of TickStep
TickFine ==
    /\ now + TickStep - 1 <= MaxTicksRetry * TickStep
    /\ now' = now + TickStep - 1
    /\ UNCHANGED <<inflight, users, sessions, rl_attempts, rl_blocked, resp, calls>>

DoRateLimitedCall == \E site \in RetrySites, dt \in 0..MaxDelay, other \in BOOLEAN :
                        RateLimitedCall(site, dt, other)
DoResetSite == \E site \in RetrySites : ResetAttempts(site.key)

NextRetry ==
    \/ DoRateLimitedCall
    \/ DoResetSite
    \/ TickFine

SpecRetry == InitEmpty /\ [][NextRetry]_vars

\* C11: every RateLimited rejection of register, authenticate or the
\* rate_limit dependency carries a retry-after that is a number of seconds,
\* also when the clock advances or another caller acts on the key between
\* is_allowed and get_retry_after.
C11_RetryAfterIsNumber ==
    (resp.op \in {"authenticate", "register", "rate_limit"} /\ resp.status = 429) =>
        resp.retry # NoRetry

-----------------------------------------------------------------------------
\* Sessions over days (SpecExpiry): the first user logs in with or without
\* remember_me, presents the refresh token last handed out, logs out, is
\* deactivated and reactivated, while the clock advances by days.

TickDays ==
    /\ now < MaxDayTicks * DayStep * MinutesPerDay
    /\ now' = now + DayStep * MinutesPerDay
    /\ UNCHANGED <<inflight, users, sessions, rl_attempts, rl_blocked, resp, calls>>

LoginRemember == \E rm \in BOOLEAN : Authenticate("a@example.com", "pw1", rm, "ip1")
RefreshIssued == Refresh(resp.refresh_token)
LogoutOne == \E s \in SessionIds : Logout(s, FALSE)

NextExpiry ==
    \/ LoginRemember
    \/ RefreshIssued
    \/ LogoutOne
    \/ DoDeactivate
    \/ DoActivate
    \/ TickDays

SpecExpiry == Init /\ [][NextExpiry]_vars

\* C12: refresh succeeds only if the token's user exists, is active and not
\* deleted and the token's session exists, belongs to that user, is active
\* and has not passed its refresh-token expiry (7 days after login, 30 with
\* remember_me); otherwise it fails with 401 and issues no access token.
C12_RefreshOnlyWithinSessionExpiry ==
    \A tok \in Tokens(now) \cup {resp.refresh_token} :
        LET r == refresh_token(users, sessions, tok, now)
        IN IF r.resp.status = 200
           THEN /\ UsableUser(users, tok.sub)
                /\ ActiveOwned(sessions, tok.session_id, tok.sub)
                /\ now <= sessions[tok.session_id].refresh_token_expires_at
           ELSE r.resp.status = 401 /\ r.resp.access_token = NoToken

HandedOut == Tokens(now) \cup {resp.access_token, resp.refresh_token}
WellFormed(tok) == tok.token_type \in TokenType

-----------------------------------------------------------------------------
\* Properties of revoke, logout and password change (Spec)

Revoked(ss, session_id) == [ss EXCEPT ![session_id].is_active = FALSE]

\* C14: revokeSession(sessionId, userId) returns true and sets active=false
\* exactly when the session exists, is owned by userId and is active;
\* otherwise it returns false and changes no session, so a second revoke of
\* the same id returns false.
C14_RevokeScopedToOwner ==
    \A s \in SessionIds, u \in UserIds :
        LET r == revoke_session(sessions, s, u)
            again == revoke_session(r.sessions, s, u)
        IN /\ IF ActiveOwned(sessions, s, u)
              THEN r.result /\ r.sessions = Revoked(sessions, s)
              ELSE ~r.result /\ r.sessions = sessions
           /\ ~again.result
           /\ again.sessions = r.sessions

\* a revoke was refused while a revoked session and a live session of another
\* user exist
C14_Witness ==
    /\ resp.op = "revoke_session"
    /\ resp.result = 0
    /\ \E i, j \in 1..Len(sessions) :
          /\ ~sessions[i].is_active
          /\ sessions[j].is_active
          /\ sessions[i].user_id # sessions[j].user_id

WentInactive(ss, after) ==
    {i \in 1..Len(ss) : ss[i].is_active /\ ~after[i].is_active}

\* C15: logout(sessionId, revokeAll=false) revokes exactly the named session,
\* logout(sessionId, revokeAll=true) exactly the active sessions of the named
\* session's owner; every other session is unchanged and the returned count
\* is the number of sessions whose active flag went from true to false.
C15_LogoutFrame ==
    \A s \in SessionIds, all \in BOOLEAN :
        LET r == logout_user(sessions, s, all)
            target(i) == IF all
                         THEN s \in 1..Len(sessions) /\ sessions[i].user_id = sessions[s].user_id
                         ELSE i = s
        IN /\ Len(r.sessions) = Len(sessions)
           /\ \A i \in 1..Len(sessions) :
                 r.sessions[i] = IF target(i) THEN Revoked(sessions, i)[i] ELSE sessions[i]
           /\ r.count = Cardinality(WentInactive(sessions, r.sessions))

\* one logout revoked two sessions at once
C15_Witness ==
    /\ resp.op = "logout"
    /\ resp.result = 2
    /\ \E i, j \in 1..Len(sessions) :
          /\ i # j
          /\ sessions[i].user_id = sessions[j].user_id
          /\ ~sessions[i].is_active
          /\ ~sessions[j].is_active

\* C16: changePassword changes only the user's password hash and only when
\* currentPassword verifies against the stored hash; with a wrong current
\* password it fails with 400 and the hash is unchanged; in both cases no
\* session changes.
C16_ChangePasswordFrame ==
    [][resp'.op = "change_password" =>
         \A u \in UserIds, p \in Passwords, np \in Passwords :
            ChangePassword(u, p, np) =>
                LET ok == users[u].hashed_password = hash_password(p)
                IN /\ sessions' = sessions
                   /\ resp'.status = IF ok THEN 200 ELSE 400
                   /\ users' = IF ok
                               THEN [users EXCEPT ![u].hashed_password = hash_password(np)]
                               ELSE users]_vars

\* the first user changed the password while a session of that user was and
\* stays active
C16_Witness ==
    /\ resp.op = "change_password"
    /\ resp.status = 200
    /\ resp.result = 1
    /\ users[1].hashed_password = hash_password("pw2")
    /\ \E i \in 1..Len(sessions) : sessions[i].user_id = 1 /\ sessions[i].is_active

-----------------------------------------------------------------------------
\* register_user as the event loop runs it (SpecRegisterRace): the coroutine
\* yields at `await self._get_user_by_email(...)` and at `await
\* self.db.commit()`, so another register call can run between the existence
\* check and the insert.  users.email carries a unique constraint: the commit
\* of a second row with the same email raises IntegrityError, which
\* register_user does not catch.

EmailTaken(us, email) == \E i \in 1..Len(us) : us[i].email = email

\* up to the existence check: the frame of a call that found no user
register_check(us, att, blk, email, password, ip, t) ==
    LET rate_key == RegisterKey(ip)
        rl == is_allowed(att, blk, rate_key, REGISTER_MAX_ATTEMPTS, REGISTER_WINDOW_MINUTES, t)
        frame == [op |-> "register", email |-> email, password |-> password, ip |-> ip]
    IN IF ~rl.allowed
       THEN [attempts |-> rl.attempts, blocked |-> rl.blocked, suspended |-> {},
             resp |-> [Response("register", 429, "Too many registration attempts")
                         EXCEPT !.retry = get_retry_after(rl.blocked, rate_key, t)]]
       ELSE IF _get_user_by_email(us, email) # 0
       THEN [attempts |-> rl.attempts, blocked |-> rl.blocked, suspended |-> {},
             resp |-> Response("register", 409, "User with this email already exists")]
       ELSE [attempts |-> rl.attempts, blocked |-> rl.blocked, suspended |-> {frame},
             resp |-> Response("register", 0, "pending")]

\* an insert without the unique constraint on users.email
register_commit_unconstrained(us, att, blk, frame, t) ==
    LET us1 == Append(us, NewUser(frame.email, frame.password))
        rst == reset_attempts(att, blk, RegisterKey(frame.ip))
    IN [users |-> us1, attempts |-> rst.attempts, blocked |-> rst.blocked,
        resp |-> [Response("register", 201, "User registered successfully") EXCEPT
                    !.access_token = create_email_verification_token(Len(us1), t),
                    !.result = Len(us1)]]

\* from db.add(user) to the return
register_commit(us, att, blk, frame, t) ==
    IF EmailTaken(us, frame.email)
    THEN [users |-> us, attempts |-> att, blocked |-> blk,
          resp |-> Response("register", 500, "IntegrityError: users.email")]
    ELSE
      LET us1 == Append(us, NewUser(frame.email, frame.password))
          rst == reset_attempts(att, blk, RegisterKey(frame.ip))
      IN [users |-> us1, attempts |-> rst.attempts, blocked |-> rst.blocked,
          resp |-> [Response("register", 201, "User registered successfully") EXCEPT
                      !.access_token = create_email_verification_token(Len(us1), t),
                      !.result = Len(us1)]]

RegisterCheck(email, password, ip) ==
    LET r == register_check(users, rl_attempts, rl_blocked, email, password, ip, now)
    IN /\ Cardinality(inflight \cup r.suspended) <= MaxInflight
       /\ rl_attempts' = r.attempts
       /\ rl_blocked' = r.blocked
       /\ resp' = r.resp
       /\ inflight' = inflight \cup r.suspended
       /\ UNCHANGED <<users, sessions, now, calls>>

RegisterCommit(frame) ==
    LET r == register_commit(users, rl_attempts, rl_blocked, frame, now)
    IN /\ frame \in inflight
       /\ frame.op = "register"
       /\ Len(r.users) <= MaxUsers
       /\ users' = r.users
       /\ rl_attempts' = r.attempts
       /\ rl_blocked' = r.blocked
       /\ resp' = r.resp
       /\ inflight' = inflight \ {frame}
       /\ UNCHANGED <<sessions, now, calls>>

RaceIPs == {"ip1", "ip2"}
DoRegisterCheck == \E e \in Emails, ip \in RaceIPs : RegisterCheck(e, "pw1", ip)
DoRegisterCommit == \E frame \in inflight : RegisterCommit(frame)
TickRace == Tick(MaxTicksRace)

NextRegisterRace ==
    \/ DoRegisterCheck
    \/ DoRegisterCommit
    \/ TickRace

SpecRegisterRace == InitEmpty /\ [][NextRegisterRace]_vars

UniqueEmails(us) == \A i, j \in 1..Len(us) : us[i].email = us[j].email => i = j

\* C17: register fails with Conflict and creates nothing when the email is
\* taken; a successful register adds exactly one user with email_verified
\* false and is_active true, returns an email-verification token whose
\* subject is that user, and creates no session; at most one user has a given
\* email in every reachable state, also when register calls for the same
\* email interleave.
C17_RegisterCreatesOneUser ==
    [][/\ UniqueEmails(users')
       /\ resp'.op = "register" =>
            /\ \A e \in Emails, ip \in RaceIPs :
                  RegisterCheck(e, "pw1", ip) =>
                      /\ users' = users
                      /\ sessions' = sessions
                      /\ (EmailTaken(users, e) /\ resp'.status # 429) => resp'.status = 409
            /\ \A frame \in inflight :
                  RegisterCommit(frame) =>
                      /\ sessions' = sessions
                      /\ IF resp'.status = 201
                         THEN /\ ~EmailTaken(users, frame.email)
                              /\ users' = Append(users,
                                    [email |-> frame.email,
                                     hashed_password |-> hash_password(frame.password),
                                     email_verified |-> FALSE, is_active |-> TRUE,
                                     deleted_at |-> FALSE])
                              /\ resp'.access_token.token_type = EMAIL_VERIFICATION
                              /\ resp'.access_token.sub = Len(users')
                         ELSE users' = users /\ EmailTaken(users, frame.email)]_vars

\* two register calls for one email interleaved: both passed the existence
\* check, one inserted the user, the other failed at its commit
C17_Witness ==
    /\ resp.op = "register"
    /\ resp.status = 500
    /\ Len(users) = 1
    /\ inflight = {}

-----------------------------------------------------------------------------
\* Password-reset requests against accounts that come and go (SpecReset)

NextReset ==
    \/ Login
    \/ AnyLogin
    \/ DoRequestPasswordReset
    \/ DoSoftDelete
    \/ DoDeactivate
    \/ DoActivate
    \/ TickLogin

SpecReset == Init /\ [][NextReset]_vars

\* C18: requestPasswordReset(email) never raises; it returns nothing when no
\* user has the email or the user is inactive or soft-deleted, and a
\* password-reset token whose subject is that user otherwise; users, sessions
\* and the rate limiter are left unchanged.
C18_ResetRequestIsSilent ==
    [][resp'.op = "request_password_reset" =>
         \A e \in Emails \cup {UnknownEmail} :
            RequestPasswordReset(e) =>
                /\ users' = users
                /\ sessions' = sessions
                /\ rl_attempts' = rl_attempts
                /\ rl_blocked' = rl_blocked
                /\ resp'.status = 200
                /\ resp'.access_token =
                     IF EmailTaken(users, e) /\ UsableUser(users, RowOf(users, e))
                     THEN [token_type |-> PASSWORD_RESET, sub |-> RowOf(users, e),
                           session_id |-> NoSession,
                           exp |-> now + PASSWORD_RESET_EXPIRE_HOURS * MinutesPerHour]
                     ELSE NoToken]_vars

\* a request returned nothing while the first account was soft-deleted and
\* failed logins were on record
C18_Witness ==
    /\ resp.op = "request_password_reset"
    /\ resp.access_token = NoToken
    /\ users[1].deleted_at
    /\ rl_attempts # EmptyDict
    /\ sessions # <<>>

-----------------------------------------------------------------------------
\* Email verification beside live sessions (SpecVerify): users log in and
\* out while verification tokens, valid, expired or of the wrong kind, are
\* presented.

VerifyInputs ==
    {tok \in Tokens(now) : tok.token_type \in {EMAIL_VERIFICATION, "garbage"}}
        \cup {resp.access_token}

VerifyAny == \E tok \in VerifyInputs : VerifyEmail(tok)

NextVerify ==
    \/ Login
    \/ VerifyAny
    \/ LogoutOne
    \/ DoTick

SpecVerify == Init /\ [][NextVerify]_vars

ValidVerification(us, tok, t) ==
    /\ tok.token_type = EMAIL_VERIFICATION
    /\ tok.exp >= t
    /\ tok.sub \in 1..Len(us)

\* C19: with a valid unexpired email-verification token verifyEmail sets
\* email_verified to true; a second call with the same token succeeds again
\* and leaves the same state; no call sets email_verified to false or changes
\* any other user field or any session.
C19_VerifyEmailIdempotent ==
    [][resp'.op = "verify_email" =>
         \A tok \in VerifyInputs :
            VerifyEmail(tok) =>
                /\ sessions' = sessions
                /\ users' = IF ValidVerification(users, tok, now)
                            THEN [users EXCEPT ![tok.sub].email_verified = TRUE]
                            ELSE users
                /\ resp'.status = 200 <=> ValidVerification(users, tok, now)
                /\ verify_email(users', tok, now) = [users |-> users', resp |-> resp']]_vars

\* a user was verified; the other user is still unverified and a session is
\* live
C19_Witness ==
    /\ resp.op = "verify_email"
    /\ resp.status = 200
    /\ users[resp.result].email_verified
    /\ \E u \in 1..Len(users) : ~users[u].email_verified
    /\ \E i \in 1..Len(sessions) : sessions[i].is_active

\* C20: a successful refresh creates and revokes no session: it returns the
\* refresh token it was given together with a new access token of the same
\* subject and session id, and changes no session's active flag, owner or
\* refresh-token expiry (only last_used_at of the token's session).
C20_RefreshFrame ==
    \A tok \in HandedOut :
        LET r == refresh_token(users, sessions, tok, now)
        IN r.resp.status = 200 =>
             /\ Len(r.sessions) = Len(sessions)
             /\ \A i \in 1..Len(sessions) :
                   r.sessions[i] = IF i = tok.session_id
                                   THEN [sessions[i] EXCEPT !.last_used_at = now]
                                   ELSE sessions[i]
             /\ r.resp.refresh_token = tok
             /\ r.resp.access_token =
                  [token_type |-> ACCESS, sub |-> tok.sub, session_id |-> tok.session_id,
                   exp |-> now + ACCESS_TOKEN_EXPIRE_MINUTES]

\* days after the login a refresh succeeded on one session while another
\* session is revoked
C20_Witness ==
    /\ resp.op = "refresh"
    /\ resp.status = 200
    /\ sessions[resp.result].last_used_at = now
    /\ sessions[resp.result].access_token_expires_at < now
    /\ resp.refresh_token.exp < now + REFRESH_TOKEN_EXPIRE_DAYS * MinutesPerDay
    /\ \E i \in 1..Len(sessions) : ~sessions[i].is_active


-----------------------------------------------------------------------------
\* RateLimiter.reset_attempts, applied to every key in every reachable state

RLWindows == {TickStep, TickStep * 2}

\* C21: whatever the state of a key (unused, counting, exhausted or blocked),
\* after reset_attempts(key) the key has no attempts entry and no block entry,
\* get_retry_after(key) returns None, and the next is_allowed(key, N, w) returns
\* true for every N >= 1 and every window w.
C21_ResetMakesKeyFresh ==
    \A key \in RLKeys :
        LET r == reset_attempts(rl_attempts, rl_blocked, key)
        IN /\ key \notin DOMAIN r.attempts
           /\ key \notin DOMAIN r.blocked
           /\ get_retry_after(r.blocked, key, now) = NoRetry
           /\ \A n \in 1..MaxN, w \in RLWindows :
                  is_allowed(r.attempts, r.blocked, key, n, w, now).allowed

\* an exhausted key with a live block and a pending retry-after, refused by
\* is_allowed, that reset_attempts turns into a key that is allowed again
C21_Witness ==
    \E key \in RLKeys :
        /\ key \in DOMAIN rl_blocked /\ now < rl_blocked[key]
        /\ key \in DOMAIN rl_attempts
        /\ Len(rl_attempts[key]) = MaxAttemptsOf(key)
        /\ get_retry_after(rl_blocked, key, now) # NoRetry
        /\ ~is_allowed(rl_attempts, rl_blocked, key, MaxAttemptsOf(key),
                       WindowOf(key), now).allowed
        /\ LET r == reset_attempts(rl_attempts, rl_blocked, key)
           IN is_allowed(r.attempts, r.blocked, key, MaxAttemptsOf(key),
                         WindowOf(key), now).allowed


-----------------------------------------------------------------------------
\* The limiter's two maps seen from one key

OnlyKey(dict, key) == [k \in DOMAIN dict \cap {key} |-> dict[k]]
SameEntry(d1, d2, key) ==
    /\ (key \in DOMAIN d1) <=> (key \in DOMAIN d2)
    /\ key \in DOMAIN d1 => d1[key] = d2[key]

\* C22: keys do not interfere.  In every reachable limiter state, is_allowed
\* and reset_attempts on one key leave the attempts entry and the blocked-until
\* entry of every other key as they were (get_retry_after writes nothing), and
\* the results of is_allowed and get_retry_after for a key are the same as
\* with every other key's entries removed: they depend on the key's own
\* history only.
C22_KeysDoNotInterfere ==
    \A key \in RLKeys :
        LET a == is_allowed(rl_attempts, rl_blocked, key, MaxAttemptsOf(key),
                            WindowOf(key), now)
            r == reset_attempts(rl_attempts, rl_blocked, key)
            alone == is_allowed(OnlyKey(rl_attempts, key), OnlyKey(rl_blocked, key),
                                key, MaxAttemptsOf(key), WindowOf(key), now)
        IN /\ \A other \in RLKeys \ {key} :
                  /\ SameEntry(a.attempts, rl_attempts, other)
                  /\ SameEntry(a.blocked, rl_blocked, other)
                  /\ SameEntry(r.attempts, rl_attempts, other)
                  /\ SameEntry(r.blocked, rl_blocked, other)
           /\ a.allowed = alone.allowed
           /\ SameEntry(a.attempts, alone.attempts, key)
           /\ SameEntry(a.blocked, alone.blocked, key)
           /\ get_retry_after(rl_blocked, key, now)
                  = get_retry_after(OnlyKey(rl_blocked, key), key, now)

\* one key is exhausted and blocked while another key, with attempts of its
\* own on record, has just been allowed
C22_Witness ==
    \E key \in RLKeys, other \in RLKeys :
        /\ key # other
        /\ key \in DOMAIN rl_blocked /\ now < rl_blocked[key]
        /\ other \in DOMAIN rl_attempts /\ other \notin DOMAIN rl_blocked
        /\ Len(rl_attempts[other]) >= 2
        /\ resp.op = "is_allowed" /\ resp.status = 200


-----------------------------------------------------------------------------
\* The block of a key in time.  SpecRL gives every key one limit and one
\* window, so rl_blocked[key] - WindowOf(key) is the time the block was set.

BlockSetAt(key) == rl_blocked[key] - WindowOf(key)

\* C23: for a key blocked by is_allowed(key, N, w), once w minutes have passed
\* since the block was set, is_allowed(key, N, w) returns true, removes the
\* block entry, and counts none of the attempts made before the block: the
\* call itself is the only attempt left on record.
C23_BlockEndsAfterWindow ==
    \A key \in RLKeys :
        (key \in DOMAIN rl_blocked /\ now >= BlockSetAt(key) + WindowOf(key)) =>
            LET r == is_allowed(rl_attempts, rl_blocked, key, MaxAttemptsOf(key),
                                WindowOf(key), now)
            IN /\ r.allowed
               /\ key \notin DOMAIN r.blocked
               /\ r.attempts[key] = <<now>>

\* a key was refused and blocked, the window passed, and the next call on it
\* was allowed, leaving no block and one attempt
C23_Witness ==
    \E key \in RLKeys :
        /\ resp.op = "is_allowed" /\ resp.status = 200
        /\ \E k \in 1..(Len(CallsOf(key)) - 1) :
               /\ CallsOf(key)[k].status = 429
               /\ CallsOf(key)[k + 1].status = 200
               /\ CallsOf(key)[k + 1].t = now
               /\ now >= CallsOf(key)[k].t + WindowOf(key)
        /\ key \notin DOMAIN rl_blocked
        /\ key \in DOMAIN rl_attempts /\ rl_attempts[key] = <<now>>

\* C27: while a key is blocked (the block was set at t with window w and the
\* time is before t + w), is_allowed on it returns false, records no attempt
\* and leaves the blocked-until time as it is.
C27_BlockedCallChangesNothing ==
    \A key \in RLKeys :
        (key \in DOMAIN rl_blocked /\ now < BlockSetAt(key) + WindowOf(key)) =>
            LET r == is_allowed(rl_attempts, rl_blocked, key, MaxAttemptsOf(key),
                                WindowOf(key), now)
            IN /\ ~r.allowed
               /\ r.attempts = rl_attempts
               /\ r.blocked = rl_blocked

\* a key was refused again at a later time inside its block, and the block
\* still ends one window after the first refusal
C27_Witness ==
    \E key \in RLKeys :
        /\ resp.op = "is_allowed" /\ resp.status = 429
        /\ \E k \in 1..(Len(CallsOf(key)) - 1) :
               /\ CallsOf(key)[k].status = 429
               /\ CallsOf(key)[k + 1].status = 429
               /\ CallsOf(key)[k].t < CallsOf(key)[k + 1].t
               /\ CallsOf(key)[k + 1].t = now
               /\ key \in DOMAIN rl_blocked
               /\ rl_blocked[key] = CallsOf(key)[k].t + WindowOf(key)


-----------------------------------------------------------------------------
\* Logging in again while earlier sessions exist (Spec)

\* C24: in every reachable state, an authenticate call by a registered user
\* with the current password succeeds, whatever sessions that user already
\* has; it adds one session row with a new id, active, owned by the user, with
\* token hashes no other row has, returns tokens that carry the new id, and
\* leaves every earlier session row, active or not, exactly as it was.
C24_EachLoginAddsASession ==
    \A u \in 1..Len(users) :
        LET r == authenticate_user(users, sessions, rl_attempts, rl_blocked,
                                   users[u].email, users[u].hashed_password.of,
                                   FALSE, "ip1", now)
            sid == Len(sessions) + 1
        IN /\ r.resp.status = 200
           /\ Len(r.sessions) = sid
           /\ r.resp.result = sid
           /\ r.sessions[sid].is_active
           /\ r.sessions[sid].user_id = u
           /\ r.resp.access_token.session_id = sid
           /\ r.resp.refresh_token.session_id = sid
           /\ \A i \in 1..Len(sessions) :
                  /\ r.sessions[i] = sessions[i]
                  /\ r.sessions[i].access_token_hash # r.sessions[sid].access_token_hash
                  /\ r.sessions[i].refresh_token_hash # r.sessions[sid].refresh_token_hash

\* the same user logged in twice without logging out: both sessions are
\* active, and the second login returned the second session's tokens
C24_Witness ==
    /\ resp.op = "authenticate" /\ resp.status = 200
    /\ Len(sessions) = 2
    /\ resp.result = 2
    /\ sessions[1].user_id = sessions[2].user_id
    /\ sessions[1].is_active /\ sessions[2].is_active
    /\ sessions[1].access_token_hash # sessions[2].access_token_hash
    /\ resp.access_token.session_id = 2


\* C26: whenever authenticate or refresh has just returned a token pair for a
\* session that is active, the access-token hash and the refresh-token hash
\* stored on that session's row are the hashes of the pair returned.
C26_StoredHashesMatchIssuedPair ==
    (/\ resp.op \in {"authenticate", "refresh"}
     /\ resp.status = 200
     /\ sessions[resp.result].is_active) =>
        /\ sessions[resp.result].access_token_hash = hash_token(resp.access_token)
        /\ sessions[resp.result].refresh_token_hash = hash_token(resp.refresh_token)


-----------------------------------------------------------------------------
\* The four endpoints behind rate_limit, called from one client address

\* POST /login
login_user(us, ss, att, blk, email, password, ip, t) ==
    LET dep == rate_limiter_dependency(att, blk, "POST /login", ip,
                                       LOGIN_MAX_ATTEMPTS, LOGIN_WINDOW_MINUTES, t)
        r == authenticate_user(us, ss, dep.attempts, dep.blocked, email, password,
                               FALSE, ip, t)
    IN IF ~dep.allowed
       THEN [sessions |-> ss, attempts |-> dep.attempts, blocked |-> dep.blocked,
             resp |-> dep.resp]
       ELSE [sessions |-> r.sessions, attempts |-> r.attempts, blocked |-> r.blocked,
             resp |-> [r.resp EXCEPT !.op = "POST /login"]]

LoginEndpoint(email, password, ip) ==
    LET r == login_user(users, sessions, rl_attempts, rl_blocked, email, password, ip, now)
    IN /\ Len(r.sessions) <= MaxSessions
       /\ sessions' = r.sessions
       /\ rl_attempts' = r.attempts
       /\ rl_blocked' = r.blocked
       /\ resp' = r.resp
       /\ UNCHANGED <<inflight, users, now, calls>>

PostLogin == LoginEndpoint("a@example.com", "pw1", "ip1")
PostRegisterA == RegisterEndpoint("a@example.com", "pw1", "ip1")
PostResendVerificationA == ResendVerificationEndpoint(UnknownEmail, "ip1")
PostPasswordResetA == PasswordResetEndpoint("a@example.com", "ip1")
TickShared == Tick(MaxTicksShared)

NextShared ==
    \/ PostLogin
    \/ PostRegisterA
    \/ PostResendVerificationA
    \/ PostPasswordResetA
    \/ TickShared

SpecShared == InitEmpty /\ [][NextShared]_vars

\* what a request to one of the four endpoints does to the limiter
RateLimitedEndpoints ==
    {"POST /register", "POST /login", "POST /resend-verification", "POST /password-reset"}

EndpointCall(endpoint, att, blk, ip, t) ==
    CASE endpoint = "POST /register" ->
           register_endpoint(users, att, blk, "a@example.com", "pw1", ip, t)
      [] endpoint = "POST /login" ->
           login_user(users, sessions, att, blk, "a@example.com", "pw1", ip, t)
      [] endpoint = "POST /resend-verification" ->
           resend_verification_email(users, att, blk, UnknownEmail, ip, t)
      [] endpoint = "POST /password-reset" ->
           request_password_reset_endpoint(users, att, blk, "a@example.com", ip, t)

EndpointMaxAttempts(endpoint) ==
    CASE endpoint = "POST /register" -> REGISTER_MAX_ATTEMPTS
      [] endpoint = "POST /login" -> LOGIN_MAX_ATTEMPTS
      [] endpoint = "POST /resend-verification" -> RESEND_MAX_ATTEMPTS
      [] endpoint = "POST /password-reset" -> PASSWORD_RESET_MAX_ATTEMPTS

EndpointWindow(endpoint) ==
    CASE endpoint = "POST /register" -> REGISTER_WINDOW_MINUTES
      [] endpoint = "POST /login" -> LOGIN_WINDOW_MINUTES
      [] endpoint = "POST /resend-verification" -> RESEND_WINDOW_MINUTES
      [] endpoint = "POST /password-reset" -> PASSWORD_RESET_WINDOW_MINUTES

\* the attempts on record for the address that are newer than the window
SharedAttempts(att, ip, window_minutes, t) ==
    IF ApiKey(ip) \in DOMAIN att
    THEN SelectSeq(att[ApiKey(ip)], LAMBDA attempt_time : attempt_time > t - window_minutes)
    ELSE <<>>

\* the request was turned away by the rate_limit dependency
Refused(r) == r.resp.status = 429 /\ r.resp.detail = "Rate limit exceeded"

\* C30: the four endpoints share one attempt history and one block per client
\* address.  In every reachable state and for every two of the endpoints e1,
\* e2 called one after the other from the same address: e1 is let through
\* exactly when the address is not blocked and fewer than e1's limit of the
\* attempts recorded for the address, by whichever endpoint, lie inside e1's
\* window; an attempt let through at e1 is on the record e2 counts; and when
\* e1 is refused, e2 is refused too, now and up to the last minute before the
\* block expires.
C30_EndpointsShareOneHistory ==
    \A ip \in EndpointIPs, e1 \in RateLimitedEndpoints, e2 \in RateLimitedEndpoints :
        LET r1 == EndpointCall(e1, rl_attempts, rl_blocked, ip, now)
            r2 == EndpointCall(e2, r1.attempts, r1.blocked, ip, now)
            blocked == ApiKey(ip) \in DOMAIN rl_blocked /\ now < rl_blocked[ApiKey(ip)]
            seen1 == SharedAttempts(rl_attempts, ip, EndpointWindow(e1), now)
            seen2 == SharedAttempts(r1.attempts, ip, EndpointWindow(e2), now)
        IN /\ ~Refused(r1)
                  <=> (~blocked /\ Len(seen1) < EndpointMaxAttempts(e1))
           /\ ~Refused(r1) =>
                  /\ seen2 # <<>> /\ seen2[Len(seen2)] = now
                  /\ ~Refused(r2) <=> (Len(seen2) < EndpointMaxAttempts(e2))
           /\ Refused(r1) =>
                  /\ Refused(r2)
                  /\ ApiKey(ip) \in DOMAIN r1.blocked
                  /\ r2.blocked = r1.blocked
                  /\ \A t \in {now, r1.blocked[ApiKey(ip)] - 1} :
                         Refused(EndpointCall(e2, r1.attempts, r1.blocked, ip, t))

\* a login was refused by a block that a register request set (only register
\* blocks for 60 minutes), more than a login window after it was set
C30_Witness ==
    /\ resp.op = "POST /login" /\ resp.status = 429
    /\ resp.detail = "Rate limit exceeded"
    /\ ApiKey("ip1") \in DOMAIN rl_blocked
    /\ now < rl_blocked[ApiKey("ip1")]
    /\ now > rl_blocked[ApiKey("ip1")] - REGISTER_WINDOW_MINUTES + LOGIN_WINDOW_MINUTES
    /\ Len(users) = 1


-----------------------------------------------------------------------------
\* A touch racing a revoke.  refresh_token reads the active session, suspends
\* at the await of its commit, and then writes last_used_at; _revoke_session
\* reads the active session, suspends, and then writes is_active.  Each
\* request has its own database session, and the commit of an ORM object
\* updates the columns that were assigned, not the whole row.

IssuedAt(ss, session_id) ==
    ss[session_id].access_token_expires_at - ACCESS_TOKEN_EXPIRE_MINUTES
IssuedRefreshToken(ss, session_id) ==
    create_refresh_token(ss[session_id].user_id, session_id, IssuedAt(ss, session_id))
IssuedAccessToken(ss, session_id) ==
    create_access_token(ss[session_id].user_id, session_id, IssuedAt(ss, session_id))

\* refresh_token up to the await of _get_active_session
refresh_select(us, ss, token, t) ==
    LET r == refresh_token(us, ss, token, t)
    IN IF r.resp.status # 200
       THEN [suspended |-> {}, resp |-> r.resp]
       ELSE [suspended |-> {[op |-> "refresh", session_id |-> r.resp.result,
                             user_id |-> ss[r.resp.result].user_id,
                             token |-> token, row |-> ss[r.resp.result]]},
             resp |-> Response("refresh", 0, "suspended")]

\* a commit that writes the whole row as it was read, with the new last_used_at
refresh_commit_whole_row(ss, frame, t) ==
    [sessions |-> [ss EXCEPT ![frame.session_id] =
                       [frame.row EXCEPT !.last_used_at = t]],
     resp |-> [Response("refresh", 200, "Token refreshed") EXCEPT
                 !.access_token = create_access_token(frame.user_id, frame.session_id, t),
                 !.refresh_token = frame.token,
                 !.result = frame.session_id]]

\* refresh_token from session.last_used_at = now to the return
refresh_commit(ss, frame, t) ==
    [sessions |-> touch(ss, frame.session_id, t),
     resp |-> [Response("refresh", 200, "Token refreshed") EXCEPT
                 !.access_token = create_access_token(frame.user_id, frame.session_id, t),
                 !.refresh_token = frame.token,
                 !.result = frame.session_id]]

\* _revoke_session up to the await of its select
revoke_select(ss, session_id) ==
    IF session_id \in 1..Len(ss) /\ ss[session_id].is_active
    THEN [suspended |-> {[op |-> "revoke", session_id |-> session_id]},
          resp |-> Response("logout", 0, "suspended")]
    ELSE [suspended |-> {}, resp |-> [Response("logout", 200, "") EXCEPT !.result = 0]]

\* _revoke_session from session.is_active = False to the return
revoke_commit(ss, frame) ==
    [sessions |-> [ss EXCEPT ![frame.session_id].is_active = FALSE],
     resp |-> [Response("logout", 200, "") EXCEPT !.result = 1]]

RefreshSelect(token) ==
    LET r == refresh_select(users, sessions, token, now)
    IN /\ Cardinality(inflight \cup r.suspended) <= MaxInflight
       /\ inflight' = inflight \cup r.suspended
       /\ resp' = r.resp
       /\ UNCHANGED <<users, sessions, rl_attempts, rl_blocked, now, calls>>

RefreshCommit(frame) ==
    LET r == refresh_commit(sessions, frame, now)
    IN /\ frame \in inflight
       /\ frame.op = "refresh"
       /\ sessions' = r.sessions
       /\ resp' = r.resp
       /\ inflight' = inflight \ {frame}
       /\ UNCHANGED <<users, rl_attempts, rl_blocked, now, calls>>

RevokeSelect(session_id) ==
    LET r == revoke_select(sessions, session_id)
    IN /\ Cardinality(inflight \cup r.suspended) <= MaxInflight
       /\ inflight' = inflight \cup r.suspended
       /\ resp' = r.resp
       /\ UNCHANGED <<users, sessions, rl_attempts, rl_blocked, now, calls>>

RevokeCommit(frame) ==
    LET r == revoke_commit(sessions, frame)
    IN /\ frame \in inflight
       /\ frame.op = "revoke"
       /\ sessions' = r.sessions
       /\ resp' = r.resp
       /\ inflight' = inflight \ {frame}
       /\ UNCHANGED <<users, rl_attempts, rl_blocked, now, calls>>

DoRefreshSelect == \E s \in 1..Len(sessions) : RefreshSelect(IssuedRefreshToken(sessions, s))
DoRefreshCommit == \E frame \in inflight : RefreshCommit(frame)
DoRevokeSelect == \E s \in SessionIds : RevokeSelect(s)
DoRevokeCommit == \E frame \in inflight : RevokeCommit(frame)
ResolveIssued == \E s \in 1..Len(sessions) : Resolve(IssuedAccessToken(sessions, s))
TickTouch == Tick(MaxTicksTouch)

NextTouchRace ==
    \/ Login
    \/ DoRefreshSelect
    \/ DoRefreshCommit
    \/ DoRevokeSelect
    \/ DoRevokeCommit
    \/ ResolveIssued
    \/ TickTouch

SpecTouchRace == Init /\ [][NextTouchRace]_vars

\* C25: under every interleaving of touches and revokes of a session, no step
\* sets the active flag of a revoked session back to true, and every revoke
\* that commits leaves its session revoked: when both requests have finished
\* the session is revoked.
C25_TouchNeverUndoesRevoke ==
    [][/\ \A i \in 1..Len(sessions) :
              ~sessions[i].is_active =>
                  (i <= Len(sessions') /\ ~sessions'[i].is_active)
       /\ \A frame \in inflight :
              (frame.op = "revoke" /\ RevokeCommit(frame)) =>
                  ~sessions'[frame.session_id].is_active]_vars

\* a refresh that read the session while it was active has just committed its
\* touch after a revoke of the same session committed: the session has the new
\* last_used_at and is revoked
C25_Witness ==
    /\ resp.op = "refresh" /\ resp.status = 200
    /\ inflight = {}
    /\ now > 0
    /\ sessions[resp.result].last_used_at = now
    /\ ~sessions[resp.result].is_active


-----------------------------------------------------------------------------
\* authenticate_user racing reset_password.  authenticate_user reads the user
\* row, verifies the password against the hash it read, and suspends at the
\* await of _create_user_session before the session row is inserted.

\* authenticate_user up to the await of _create_user_session
authenticate_read(us, ss, att, blk, email, password, remember_me, ip, t) ==
    LET r == authenticate_user(us, ss, att, blk, email, password, remember_me, ip, t)
        rl == is_allowed(att, blk, LoginKey(ip), LOGIN_MAX_ATTEMPTS, LOGIN_WINDOW_MINUTES, t)
    IN IF r.resp.status = 200
       THEN [attempts |-> rl.attempts, blocked |-> rl.blocked,
             suspended |-> {[op |-> "authenticate", user |-> _get_user_by_email(us, email),
                             remember_me |-> remember_me, ip |-> ip,
                             verified_against |-> us[_get_user_by_email(us, email)].hashed_password]},
             resp |-> Response("authenticate", 0, "suspended")]
       ELSE [attempts |-> r.attempts, blocked |-> r.blocked, suspended |-> {},
             resp |-> r.resp]

\* authenticate_user from the insert of the session row to the return
authenticate_finish(ss, att, blk, frame, t) ==
    IF unique_token_hash_violation(ss)
    THEN [sessions |-> ss, attempts |-> att, blocked |-> blk,
          resp |-> Response("authenticate", 500, "Internal Server Error")]
    ELSE
      LET ss1 == _create_user_session(ss, frame.user, frame.remember_me, t)
          sid == Len(ss1)
          token_pair == _generate_token_pair(ss1, frame.user, sid, frame.remember_me, t)
          rst == reset_attempts(att, blk, LoginKey(frame.ip))
      IN [sessions |-> get_db(ss1, token_pair.sessions, TRUE),
          attempts |-> rst.attempts, blocked |-> rst.blocked,
          resp |-> [Response("authenticate", 200, "Login successful") EXCEPT
                      !.access_token = token_pair.access_token,
                      !.refresh_token = token_pair.refresh_token,
                      !.result = sid]]

AuthenticateRead(email, password, remember_me, ip) ==
    LET r == authenticate_read(users, sessions, rl_attempts, rl_blocked,
                               email, password, remember_me, ip, now)
    IN /\ Cardinality(inflight \cup r.suspended) <= MaxInflight
       /\ CanLog(LoginKey(ip), MaxCalls)
       /\ rl_attempts' = r.attempts
       /\ rl_blocked' = r.blocked
       /\ resp' = r.resp
       /\ inflight' = inflight \cup r.suspended
       /\ calls' = Log(calls, LoginKey(ip), now, r.resp.status, 200, FALSE)
       /\ UNCHANGED <<users, sessions, now>>

AuthenticateFinish(frame) ==
    LET r == authenticate_finish(sessions, rl_attempts, rl_blocked, frame, now)
    IN /\ frame \in inflight
       /\ frame.op = "authenticate"
       /\ Len(r.sessions) <= MaxSessions
       /\ sessions' = r.sessions
       /\ rl_attempts' = r.attempts
       /\ rl_blocked' = r.blocked
       /\ resp' = r.resp
       /\ inflight' = inflight \ {frame}
       /\ calls' = DictDel(calls, LoginKey(frame.ip))
       /\ UNCHANGED <<users, now>>

\* the first user logs in with the password set at registration, and resets
\* the password to another one
OldPassword == "pw1"
NewPassword == "pw2"
ResetUser == 1

LoginOldPassword == AuthenticateRead(users[ResetUser].email, OldPassword, FALSE, "ip1")
DoAuthenticateFinish == \E frame \in inflight : AuthenticateFinish(frame)
ResetToNewPassword ==
    ResetPassword(create_password_reset_token(ResetUser, now), NewPassword)
TickResetRace == Tick(MaxTicksResetRace)

NextResetRace ==
    \/ LoginOldPassword
    \/ DoAuthenticateFinish
    \/ ResetToNewPassword
    \/ TickResetRace

SpecResetRace == Init /\ [][NextResetRace]_vars

\* C29: once a password reset has completed and no request is in flight, no
\* session of the user that was created by a login with the old password is
\* active (every login here presents the old password, so: no session of the
\* user is active).
C29_NoOldPasswordSessionSurvives ==
    (/\ inflight = {}
     /\ users[ResetUser].hashed_password = hash_password(NewPassword)) =>
        \A s \in 1..Len(sessions) :
            sessions[s].user_id = ResetUser => ~sessions[s].is_active


-----------------------------------------------------------------------------
\* RateLimiter called from several threads.  rate_limiter_dependency is a
\* plain def, which FastAPI runs in its thread pool, and the limiter's two
\* dicts have no lock: a thread can be preempted between any two statements of
\* is_allowed.  All requests of one address use the same key.  A frame is a thread inside is_allowed, at the statement pc.

Thread(id, key, pc) == [op |-> "is_allowed", id |-> id, key |-> key, pc |-> pc]
FreeIds == (1..MaxInflight) \ {frame.id : frame \in inflight}
KeyError == "KeyError"

\* lines 250-255: the block check, up to del self._blocked[key]
is_allowed_enter(blk, key, t) ==
    IF key \in DOMAIN blk
    THEN (IF t < blk[key] THEN "return False" ELSE "unblock")
    ELSE "prune"

\* line 255: del self._blocked[key]
is_allowed_unblock(blk, key) ==
    IF key \in DOMAIN blk
    THEN [blocked |-> DictDel(blk, key), pc |-> "prune"]
    ELSE [blocked |-> blk, pc |-> KeyError]

\* lines 258-266: create the list, drop the attempts outside the window
is_allowed_prune(att, key, window_minutes, t) ==
    LET cur == IF key \in DOMAIN att THEN att[key] ELSE <<>>
    IN DictSet(att, key,
               SelectSeq(cur, LAMBDA attempt_time : attempt_time > t - window_minutes))

\* line 269: len(self._attempts[key]) < max_attempts; lines 273-275 otherwise
is_allowed_check(att, blk, key, max_attempts, window_minutes, t) ==
    IF key \notin DOMAIN att
    THEN [blocked |-> blk, pc |-> KeyError]
    ELSE IF Len(att[key]) < max_attempts
    THEN [blocked |-> blk, pc |-> "append"]
    ELSE [blocked |-> DictSet(blk, key, t + window_minutes), pc |-> "return False"]

\* lines 270-271: self._attempts[key].append(now); return True
is_allowed_append(att, key, t) ==
    IF key \notin DOMAIN att
    THEN [attempts |-> att, pc |-> KeyError]
    ELSE [attempts |-> DictSet(att, key, Append(att[key], t)), pc |-> "return True"]

StatusOf(pc) ==
    IF pc = "return True" THEN 200 ELSE IF pc = "return False" THEN 429 ELSE 500

\* the thread moves to pc, or returns (or raises) and leaves
Move(frame, key, id, pc) ==
    IF pc \in {"return True", "return False", KeyError}
    THEN /\ inflight' = inflight \ {frame}
         /\ resp' = Response("is_allowed", StatusOf(pc), pc)
         /\ calls' = Log(calls, key, now, StatusOf(pc), 0, FALSE)
    ELSE /\ inflight' = (inflight \ {frame}) \cup {Thread(id, key, pc)}
         /\ resp' = Response("is_allowed", 0, pc)
         /\ calls' = calls

ThreadEnter(key) ==
    /\ CanLog(key, MaxN + 2)
    /\ Cardinality(DOMAIN rl_attempts \cup DOMAIN rl_blocked \cup DOMAIN calls
                   \cup {frame.key : frame \in inflight} \cup {key}) <= MaxRaceKeys
    /\ \E id \in FreeIds :
           Move(Thread(id, key, "enter"), key, id, is_allowed_enter(rl_blocked, key, now))
    /\ UNCHANGED <<users, sessions, rl_attempts, rl_blocked, now>>

ThreadStep(frame) ==
    /\ frame \in inflight
    /\ frame.op = "is_allowed"
    /\ CASE frame.pc = "unblock" ->
              LET r == is_allowed_unblock(rl_blocked, frame.key)
              IN /\ rl_blocked' = r.blocked
                 /\ rl_attempts' = rl_attempts
                 /\ Move(frame, frame.key, frame.id, r.pc)
         [] frame.pc = "prune" ->
              /\ rl_attempts' = is_allowed_prune(rl_attempts, frame.key,
                                                 WindowOf(frame.key), now)
              /\ rl_blocked' = rl_blocked
              /\ Move(frame, frame.key, frame.id, "check")
         [] frame.pc = "check" ->
              LET r == is_allowed_check(rl_attempts, rl_blocked, frame.key,
                                        MaxAttemptsOf(frame.key), WindowOf(frame.key), now)
              IN /\ rl_blocked' = r.blocked
                 /\ rl_attempts' = rl_attempts
                 /\ Move(frame, frame.key, frame.id, r.pc)
         [] frame.pc = "append" ->
              LET r == is_allowed_append(rl_attempts, frame.key, now)
              IN /\ rl_attempts' = r.attempts
                 /\ rl_blocked' = rl_blocked
                 /\ Move(frame, frame.key, frame.id, r.pc)
    /\ UNCHANGED <<users, sessions, now>>

DoThreadEnter == \E key \in RLKeys : ThreadEnter(key)
DoThreadStep == \E frame \in inflight : ThreadStep(frame)
TickThreads == Tick(MaxTicksThreads)

NextThreads ==
    \/ DoThreadEnter
    \/ DoThreadStep
    \/ TickThreads

SpecThreads == InitEmpty /\ [][NextThreads]_vars

\* the calls on the key that returned true inside the window that ends now
AllowedInWindow(key) ==
    {k \in 1..Len(CallsOf(key)) :
        CallsOf(key)[k].status = 200 /\ CallsOf(key)[k].t > now - WindowOf(key)}

\* C28: with callers interleaved inside is_allowed, no call fails with an
\* internal error (such as deleting a block entry another caller has already
\* deleted), at most max_attempts calls on a key return true within one
\* window, and every call that returned true inside the window is on the
\* key's record once no caller is inside is_allowed.
C28_SafeUnderConcurrentCallers ==
    \A key \in RLKeys :
        /\ \A k \in 1..Len(CallsOf(key)) : CallsOf(key)[k].status # 500
        /\ Cardinality(AllowedInWindow(key)) <= MaxAttemptsOf(key)
        /\ (inflight = {} /\ key \in DOMAIN rl_attempts) =>
               Cardinality(AllowedInWindow(key)) <= Len(rl_attempts[key])

====
